---- MODULE Spec2Model ----
(***************************************************************************)
(* boston_geomap: the tile-grid store (geomap/storage.py), the ingest      *)
(* pipeline and the query handlers of the HTTP server (server/app.py).     *)
(*                                                                         *)
(* The tables and statements are the ones storage.py defines:             *)
(* taxon_grid and taxon_layer_state keyed by (taxon_id, zoom, slot_id),    *)
(* grid_hotmap and hotmap_taxa_set by (zoom, slot_id).  The callers        *)
(* (app.py, the scripts) pass every storage function a year and select on  *)
(* a year column, so each table is kept per year bucket: table[y] holds    *)
(* the rows of bucket y in the shape storage.py gives them, and a storage  *)
(* function called with year y works on table[y] alone.  SpecFrame is the  *)
(* exception: it runs the statements of storage.py on the one table the    *)
(* DDL creates, where the bucket of a row is only its caller's label.      *)
(*                                                                         *)
(* SHA-256 is taken to be injective: a hash is the blob it is computed     *)
(* from.  Timestamps are the number of the build that wrote them.          *)
(***************************************************************************)
EXTENDS Integers, Sequences, FiniteSets, TLC

\* ---------------------------------------------------------------- bounds
MaxX == 1
MaxObs == 1
MaxCells == 2
MaxZoom == 2
MaxBuilds == 2
MaxYears == 1
MaxRuns == 3
MaxOps == 3

\* ------------------------------------------------------ program constants
SLOT_ALL == 0
YEAR_ALL == 0
SLOT_MIN == 0
SLOT_MAX == 48
\* app.py imports YEAR_MIN and YEAR_MAX from a storage module that is not in
\* the sources at hand: "valid calendar year"
YEAR_MIN == 1900
YEAR_MAX == 2100

VARIABLES
  lock,               \* BUILD_LOCK is held
  resp,               \* per client: the answer to its latest POST /api/pipeline/build
  b,                  \* the locals of the running pipeline_build
  taxon_grid,         \* table taxon_grid
  taxon_layer_state,  \* table taxon_layer_state
  grid_hotmap,        \* table grid_hotmap
  hotmap_taxa_set,    \* table hotmap_taxa_set
  views,              \* the views that exist
  upstream,           \* what the upstream answers per year
  builds,             \* number of builds and script runs started (the clock)
  step,               \* history: the ingest step in progress or last ended
  seen,               \* history: what a concurrent reader observed of the step's layer
  last,               \* history: the store as the previous successful build left it
  q,                  \* per query handler: the request it serves and its position
  op,                 \* history: the script run last, and the store it found
  sos,                \* the locals of the running geogrid_aggregation_resilient
  pwb,                \* sos_export: the clock, _LAST_TS and the locals of post_with_backoff
  rq,                 \* the HTTP request a query handler serves, and its answer
  fn                  \* the arguments and the value of the function applied last

vars == <<lock, resp, b, taxon_grid, taxon_layer_state, grid_hotmap,
          hotmap_taxa_set, views, upstream, builds, step, seen, last, q, op, sos, pwb, rq, fn>>

store == <<taxon_grid, taxon_layer_state, grid_hotmap, hotmap_taxa_set>>

\* ------------------------------------------------------------ value sets
Range(f) == {f[i] : i \in DOMAIN f}
Clients == {1, 2}
TaxonIds == <<1>>
Xs == 0..MaxX
Ys == {0}
Zooms == 0..MaxZoom
BaseZoom == MaxZoom
YearFrom == 2000
YearSeq == [i \in 1..MaxYears |-> YearFrom + i - 1]
Years == Range(YearSeq)
Buckets == Years \cup {YEAR_ALL}
NoRows == [y \in Buckets |-> {}]
NULL == [none |-> TRUE]

\* no call of geogrid_aggregation_resilient is running
NoPayload == [has |-> FALSE, cells |-> <<>>]
NoAnswer == [status |-> 0, msg |-> "", cells |-> <<>>]
NoSos ==
  [status |-> "idle", max_depth |-> 0, stack |-> <<>>, ret |-> NoPayload,
   result |-> NoPayload, requests |-> 0, answer |-> NoAnswer, tries |-> 0]

\* no call of post_with_backoff has been made: _LAST_TS = 0.0
NoResponse == [status |-> 0, header |-> [kind |-> "none", n |-> 0], hint |-> [has |-> FALSE, n |-> 0]]
NoPwb ==
  [pc |-> "idle", since |-> 0, min_interval_s |-> 0, max_retries |-> 0,
   attempt |-> 0, last |-> NoResponse, returned |-> NoResponse, posts |-> 0,
   statuses |-> <<>>, sent |-> FALSE, gap |-> -1, slept |-> 0, calls |-> 0]

\* a request parameter: left out, an integer, or text that int() refuses
Absent == [kind |-> "absent", n |-> 0]
Num(n) == [kind |-> "int", n |-> n]
Text == [kind |-> "text", n |-> 0]
NoList == [given |-> FALSE, vals |-> <<>>]

\* no request is being served
NoRq ==
  [pc |-> "idle", op |-> "", zoom |-> Absent, slot_id |-> Absent, slot_ids |-> NoList,
   year_from |-> Absent, year_to |-> Absent, status |-> 0, code |-> "",
   z |-> 0, slots |-> {}, years |-> <<0, 0>>,
   x |-> 0, y |-> 0, limit |-> 200, lon |-> 0, max_km |-> 250, d0_km |-> 30, gamma |-> 2,
   schema |-> FALSE, read |-> FALSE, called |-> FALSE, wrote |-> FALSE, result |-> <<>>]

\* no function has been applied
NoFn == [name |-> ""]

\* zoom lists as parse_zooms returns them: unique, highest first
ZoomLists == {[i \in 1..n |-> MaxZoom + 1 - i] : n \in 1..(MaxZoom + 1)}

\* a grid cell of an upstream payload; bb: the cell carries a boundingBox
Cell(x, y, obs, bb) == [x |-> x, y |-> y, observationsCount |-> obs, bb |-> bb]
Cells == {Cell(x, y, o, TRUE) : x \in Xs, y \in Ys, o \in 1..MaxObs}
SeqsUpTo(S, n) == UNION {[1..k -> S] : k \in 0..n}

\* the payloads the upstream is let to return: every list of up to MaxCells
\* cells in ascending or descending tile order, a list that repeats a tile,
\* and a list with a cell that has no boundingBox
Payloads ==
  {p \in SeqsUpTo(Cells, MaxCells) :
      \A i, j \in DOMAIN p : i < j => p[i].x # p[j].x}
  \cup {<<Cell(0, 0, 1, TRUE), Cell(0, 0, 1, TRUE)>>}
  \cup {<<Cell(0, 0, 1, FALSE)>>}

RECURSIVE Pow2(_)
Pow2(n) == IF n = 0 THEN 1 ELSE 2 * Pow2(n - 1)

\* =================================================================
\* geomap/sos_client.py
\* =================================================================

\* list.sort(key=(x, y)): a stable insertion sort on the tile
RECURSIVE InsertByXY(_, _)
InsertByXY(sorted, e) ==
  IF sorted = <<>> THEN <<e>>
  ELSE LET h == Head(sorted) IN
       IF e[1] < h[1] \/ (e[1] = h[1] /\ e[2] < h[2])
       THEN <<e>> \o sorted
       ELSE <<h>> \o InsertByXY(Tail(sorted), e)

RECURSIVE SortByXY(_)
SortByXY(slim) ==
  IF slim = <<>> THEN <<>>
  ELSE InsertByXY(SortByXY(SubSeq(slim, 1, Len(slim) - 1)), slim[Len(slim)])

\* float(tl.get("latitude")) of a cell without boundingBox raises TypeError
HashRaises(cells) == \E i \in DOMAIN cells : ~cells[i].bb

Sha(blob) == [kind |-> "sha", src |-> -1, blob |-> blob]

\* stable_gridcells_hash: the projected cells sorted by (x, y)
stable_gridcells_hash(cells, zoom) ==
  Sha(SortByXY([i \in DOMAIN cells |->
        <<cells[i].x, cells[i].y, zoom, cells[i].observationsCount>>]))

\* =================================================================
\* geomap/storage.py
\* =================================================================

\* f"LOCAL_FROM_{int(src_zoom)}:{src_sha}"
local_from_marker(src_zoom, src_sha) ==
  [kind |-> "local", src |-> src_zoom, blob |-> src_sha.blob]

\* payload_sha256 LIKE 'LOCAL_FROM_%'
IsLocalFrom(sha) == sha.kind = "local"

is_valid_local_from(payload_sha, src_zoom, src_sha) ==
  payload_sha = local_from_marker(src_zoom, src_sha)

InLayer(r, t, z, s) == r.taxon_id = t /\ r.zoom = z /\ r.slot_id = s

\* SELECT ... FROM taxon_grid WHERE taxon_id=? AND zoom=? AND slot_id=?
LayerRows(tg, t, z, s) == {r \in tg : InLayer(r, t, z, s)}

\* DELETE FROM taxon_grid WHERE taxon_id=? AND zoom=? AND slot_id=?
DeleteLayer(tg, t, z, s) == {r \in tg : ~InLayer(r, t, z, s)}

\* _tile_bbox_latlon: the slippy-tile bounding box of tile (x, y) at zoom z.
\* Longitude is linear in x / 2^z and latitude falls strictly with y / 2^z,
\* so the box is kept in tile units of zoom MaxZoom, north positive; MAX and
\* MIN over boxes are the same in these units as in degrees.
tile_bbox(z, x, y) ==
  LET unit == Pow2(MaxZoom - z)
  IN [top |-> 0 - y * unit, left |-> x * unit,
      bottom |-> 0 - (y + 1) * unit, right |-> (x + 1) * unit]

SetMax(S) == CHOOSE m \in S : \A n \in S : n <= m
SetMin(S) == CHOOSE m \in S : \A n \in S : m <= n

\* MAX(bbox_top_lat), MIN(bbox_left_lon), MIN(bbox_bottom_lat),
\* MAX(bbox_right_lon) over the rows of a group
bbox_union(rows) ==
  [top |-> SetMax({r.bbox.top : r \in rows}), left |-> SetMin({r.bbox.left : r \in rows}),
   bottom |-> SetMin({r.bbox.bottom : r \in rows}),
   right |-> SetMax({r.bbox.right : r \in rows})]

\* the tuple replace_taxon_grid appends to rows for one cell
GridRow(t, z, s, x, y, obs, bbox, now) ==
  [taxon_id |-> t, zoom |-> z, slot_id |-> s, x |-> x, y |-> y,
   observations_count |-> obs, bbox |-> bbox, fetched_at_utc |-> now]

\* PRIMARY KEY (taxon_id, zoom, slot_id, x, y)
PkConflict(tg, row) ==
  \E r \in tg : InLayer(r, row.taxon_id, row.zoom, row.slot_id)
                /\ r.x = row.x /\ r.y = row.y

\* rows of replace_taxon_grid, in the order of grid_cells; tl["latitude"] of
\* a cell without boundingBox raises KeyError
ReplaceRows(t, z, s, cells, now) ==
  [i \in DOMAIN cells |->
     GridRow(t, z, s, cells[i].x, cells[i].y, cells[i].observationsCount,
             IF cells[i].bb THEN tile_bbox(z, cells[i].x, cells[i].y) ELSE NULL, now)]
ReplaceRaises(cells) == \E i \in DOMAIN cells : ~cells[i].bb

\* executemany(INSERT ...): the rows one after the other; Fail when a row
\* hits the primary key (sqlite3.IntegrityError)
Fail == [ok |-> FALSE, tg |-> {}]
RECURSIVE InsertMany(_, _)
InsertMany(tg, rows) ==
  IF rows = <<>> THEN [ok |-> TRUE, tg |-> tg]
  ELSE IF PkConflict(tg, Head(rows)) THEN Fail
  ELSE InsertMany(tg \cup {Head(rows)}, Tail(rows))

\* replace_taxon_grid inside one transaction: the new table, or Fail (the
\* caller rolls back)
replace_taxon_grid(tg, t, z, s, cells, now) ==
  IF ReplaceRaises(cells) THEN Fail
  ELSE InsertMany(DeleteLayer(tg, t, z, s), ReplaceRows(t, z, s, cells, now))

StateKey(r, t, z, s) == r.taxon_id = t /\ r.zoom = z /\ r.slot_id = s

\* get_layer_state: the row, or NULL
get_layer_state(tls, t, z, s) ==
  IF \E r \in tls : StateKey(r, t, z, s)
  THEN CHOOSE r \in tls : StateKey(r, t, z, s)
  ELSE NULL

\* INSERT ... ON CONFLICT(taxon_id, zoom, slot_id) DO UPDATE
upsert_layer_state(tls, t, z, s, sha, count, now) ==
  {r \in tls : ~StateKey(r, t, z, s)}
  \cup {[taxon_id |-> t, zoom |-> z, slot_id |-> s, last_fetch_utc |-> now,
         payload_sha256 |-> sha, grid_cell_count |-> count]}

RECURSIVE SumObs(_)
SumObs(rows) ==
  IF rows = {} THEN 0
  ELSE LET r == CHOOSE r \in rows : TRUE
       IN r.observations_count + SumObs(rows \ {r})

\* a mutant of MaterializeRows: MAX(observations_count) for SUM
MaterializeRowsMax(tg, t, s, src_zoom, dst_zoom, now) ==
  LET factor == Pow2(src_zoom - dst_zoom)
      src == LayerRows(tg, t, src_zoom, s)
      parents == {<<r.x \div factor, r.y \div factor>> : r \in src}
      children(p) == {r \in src : r.x \div factor = p[1] /\ r.y \div factor = p[2]}
  IN {GridRow(t, dst_zoom, s, p[1], p[2],
              SetMax({r.observations_count : r \in children(p)}),
              bbox_union(children(p)), now) : p \in parents}

\* SELECT (x / ?) AS px, (y / ?) AS py, SUM(observations_count), ...,
\* MAX(bbox_top_lat), MIN(bbox_left_lon), MIN(bbox_bottom_lat),
\* MAX(bbox_right_lon) ... GROUP BY px, py ORDER BY px, py  -- as the rows
\* materialize inserts
MaterializeRows(tg, t, s, src_zoom, dst_zoom, now) ==
  LET factor == Pow2(src_zoom - dst_zoom)
      src == LayerRows(tg, t, src_zoom, s)
      parents == {<<r.x \div factor, r.y \div factor>> : r \in src}
      children(p) == {r \in src : r.x \div factor = p[1] /\ r.y \div factor = p[2]}
  IN {GridRow(t, dst_zoom, s, p[1], p[2], SumObs(children(p)),
              bbox_union(children(p)), now) : p \in parents}

\* materialize_parent_zoom_from_child inside one transaction
materialize_grid(tg, t, s, src_zoom, dst_zoom, now) ==
  DeleteLayer(tg, t, dst_zoom, s) \cup MaterializeRows(tg, t, s, src_zoom, dst_zoom, now)

materialize_state(tls, tg, t, s, src_zoom, dst_zoom, src_sha, now) ==
  upsert_layer_state(tls, t, dst_zoom, s, local_from_marker(src_zoom, src_sha),
                     Cardinality(MaterializeRows(tg, t, s, src_zoom, dst_zoom, now)), now)

\* hotmap_alpha and hotmap_beta of the configuration; beta is kept as twice
\* its value, so that 0.5 is the integer 1
hotmap_alpha == 2

hotmap_beta2 == 1

RECURSIVE Pow(_, _)
Pow(base, e) == IF e = 0 THEN 1 ELSE base * Pow(base, e - 1)

\* a mutant of Score: the denominator lacks the + 1.0
ScoreNoOffset(coverage, obs_total, alpha, beta2) ==
  [num |-> Pow(coverage, alpha), den2 |-> Pow(obs_total, beta2)]

\* (float(r[4]) ** alpha) / ((float(r[5] or 0) + 1.0) ** beta) in exact
\* arithmetic: the score is num / sqrt(den2), with den2 the square of the
\* denominator
Score(coverage, obs_total, alpha, beta2) ==
  [num |-> Pow(coverage, alpha), den2 |-> Pow(obs_total + 1, beta2)]

\* SELECT ... COUNT(DISTINCT taxon_id), SUM(observations_count) FROM taxon_grid
\* WHERE zoom=? AND slot_id=? AND taxon_id IN (...) GROUP BY zoom, slot_id, x, y
HotmapRows(tg, zoom, slot_id, taxon_ids, alpha, beta2, now) ==
  LET sel == {r \in tg : r.zoom = zoom /\ r.slot_id = slot_id
                         /\ r.taxon_id \in Range(taxon_ids)}
      tiles == {<<r.x, r.y>> : r \in sel}
      at(p) == {r \in sel : r.x = p[1] /\ r.y = p[2]}
  IN {[zoom |-> zoom, slot_id |-> slot_id, x |-> p[1], y |-> p[2],
       coverage |-> Cardinality({r.taxon_id : r \in at(p)}),
       score |-> Score(Cardinality({r.taxon_id : r \in at(p)}), SumObs(at(p)),
                      alpha, beta2),
       updated_at_utc |-> now] : p \in tiles}

\* a mutant of rebuild_hotmap: the rows of the earlier rebuild are not deleted
rebuild_hotmap_keep(gh, tg, zoom, slot_id, taxon_ids, alpha, beta2, now) ==
  IF taxon_ids = <<>> THEN gh
  ELSE gh \cup HotmapRows(tg, zoom, slot_id, taxon_ids, alpha, beta2, now)

\* rebuild_hotmap: table grid_hotmap afterwards
rebuild_hotmap(gh, tg, zoom, slot_id, taxon_ids, alpha, beta2, now) ==
  IF taxon_ids = <<>> THEN gh
  ELSE {r \in gh : ~(r.zoom = zoom /\ r.slot_id = slot_id)}
       \cup HotmapRows(tg, zoom, slot_id, taxon_ids, alpha, beta2, now)

\* rebuild_hotmap: table hotmap_taxa_set afterwards
rebuild_taxa_set(hts, zoom, slot_id, taxon_ids) ==
  IF taxon_ids = <<>> THEN hts
  ELSE {r \in hts : ~(r.zoom = zoom /\ r.slot_id = slot_id)}
       \cup {[zoom |-> zoom, slot_id |-> slot_id, taxon_id |-> t] : t \in Range(taxon_ids)}

\* an optional argument that is None
None == -1
Matches(v, arg) == arg = None \/ v = arg

\* clear_hotmap(zoom=None, slot_id=None)
clear_hotmap(rows, zoom, slot_id) ==
  {r \in rows : ~(Matches(r.zoom, zoom) /\ Matches(r.slot_id, slot_id))}

\* clear_derived_zoom_cache: DELETE FROM taxon_layer_state WHERE zoom != ?
\* [AND slot_id=?] AND payload_sha256 LIKE 'LOCAL_FROM_%'
clear_derived_state(tls, keep_zoom, slot_id) ==
  {r \in tls : ~(r.zoom # keep_zoom /\ Matches(r.slot_id, slot_id)
                 /\ IsLocalFrom(r.payload_sha256))}

\* clear_derived_zoom_cache: DELETE FROM taxon_grid WHERE zoom != ? [AND slot_id=?]
clear_derived_grid(tg, keep_zoom, slot_id) ==
  {r \in tg : ~(r.zoom # keep_zoom /\ Matches(r.slot_id, slot_id))}

\* the views ensure_schema drops, in its order, and creates, in its order
DropOrder == <<"grid_hotmap_taxa_names_v", "grid_hotmap_v",
               "grid_hotspot_taxa_v", "grid_taxa_v">>
CreateOrder == <<"grid_taxa_v", "grid_hotspot_taxa_v",
                 "grid_hotmap_v", "grid_hotmap_taxa_names_v">>
AllViews == Range(CreateOrder)

\* =================================================================
\* server/app.py
\* =================================================================

\* the smallest (x, y) of a non-empty set of tiles
MinTile(S) ==
  CHOOSE p \in S : \A o \in S : p[1] < o[1] \/ (p[1] = o[1] /\ p[2] <= o[2])

RECURSIVE TilesSorted(_)
TilesSorted(S) ==
  IF S = {} THEN <<>> ELSE <<MinTile(S)>> \o TilesSorted(S \ {MinTile(S)})

RECURSIVE Flatten(_)
Flatten(payloads) ==
  IF payloads = <<>> THEN <<>> ELSE Head(payloads) \o Flatten(Tail(payloads))

RECURSIVE SumCells(_, _)
SumCells(cells, p) ==
  IF cells = <<>> THEN 0
  ELSE (IF Head(cells).x = p[1] /\ Head(cells).y = p[2]
        THEN Head(cells).observationsCount ELSE 0) + SumCells(Tail(cells), p)

\* _merge_payloads_gridcells: one cell per (x, y, zoom), observationsCount
\* summed, sorted by (x, y)
merge_payloads_gridcells(payloads) ==
  LET all == Flatten(payloads)
      keys == TilesSorted({<<c.x, c.y>> : c \in Range(all)})
  IN [i \in DOMAIN keys |-> Cell(keys[i][1], keys[i][2], SumCells(all, keys[i]), TRUE)]

\* a mutant of TryAcquire: the lock is taken whether it is held or not
TryAcquireBlind(held) == TRUE

\* BUILD_LOCK.acquire(blocking=False)
TryAcquire(held) == ~held

NoSha == [kind |-> "none", src |-> -1, blob |-> <<>>]

\* what a reader of the layer (t, z, s) gets: its rows and its hash
LayerView(tg, tls, t, z, s) ==
  [rows |-> {<<r.x, r.y, r.observations_count>> : r \in LayerRows(tg, t, z, s)},
   sha |-> IF get_layer_state(tls, t, z, s) = NULL THEN NoSha
           ELSE get_layer_state(tls, t, z, s).payload_sha256]

CellView(cells, sha) ==
  [rows |-> {<<c.x, c.y, c.observationsCount>> : c \in Range(cells)}, sha |-> sha]

Idle ==
  [pc |-> "idle", client |-> 0, force |-> FALSE, zooms |-> <<>>, si |-> 0, ti |-> 0,
   yi |-> 0, all |-> FALSE, payloads |-> <<>>, cells |-> <<>>, sha |-> NoSha,
   rows |-> <<>>, zi |-> 0, src_zoom |-> 0, hy |-> 0, hz |-> 0, rerun |-> FALSE]

NoStep ==
  [active |-> FALSE, failed |-> FALSE, skip |-> FALSE, t |-> 0, z |-> 0, y |-> 0, s |-> 0,
   tg0 |-> NoRows, tls0 |-> NoRows, new |-> [rows |-> {}, sha |-> NoSha]]
NoSeen == [valid |-> FALSE, view |-> [rows |-> {}, sha |-> NoSha]]
NoLast ==
  [valid |-> FALSE, n |-> 0, force |-> FALSE, zooms |-> <<>>, upstream |-> <<>>,
   tg |-> NoRows, tls |-> NoRows, gh |-> NoRows, hts |-> NoRows]
NoOp ==
  [name |-> "none", zoom |-> 0, taxon_ids |-> <<>>, keep_zoom |-> 0, year |-> 0,
   tg0 |-> NoRows, tls0 |-> NoRows, gh0 |-> NoRows, hts0 |-> NoRows]
Handlers == {1, 2}
QueryKinds == {"hotmap", "hotmap_window", "cell_taxa", "cell_taxa_window", "rank_nearby"}
NoQuery == [pc |-> "idle", i |-> 0, kind |-> "", result |-> "none"]

SlotsToBuild == <<SLOT_ALL>>
Slot == SlotsToBuild[b.si]
Taxon == TaxonIds[b.ti]
Base == b.zooms[1]
Year == IF b.all THEN YEAR_ALL ELSE YearSeq[b.yi]

\* the exception leaves pipeline_build: finally closes the connection and
\* releases BUILD_LOCK, the error handler answers 500
Raise ==
  /\ lock' = FALSE
  /\ resp' = [resp EXCEPT ![b.client] = "internal_error"]
  /\ b' = Idle
  /\ step' = [step EXCEPT !.failed = step.active, !.active = FALSE]

\* the same, out of the upstream call or the hash that start a step
RaiseAtFetch ==
  /\ lock' = FALSE
  /\ resp' = [resp EXCEPT ![b.client] = "internal_error"]
  /\ b' = Idle
  /\ step' = [NoStep EXCEPT !.failed = TRUE, !.t = Taxon, !.z = Base, !.y = Year,
                            !.s = Slot, !.tg0 = taxon_grid, !.tls0 = taxon_layer_state]

\* POST /api/pipeline/build, while fewer than limit builds have started
PostBuild(c, limit) ==
  /\ resp[c] # "running"
  /\ IF ~TryAcquire(lock)
     THEN /\ resp' = [resp EXCEPT ![c] = "busy"]
          /\ UNCHANGED <<lock, b, builds, step, seen, last, sos, pwb, rq, fn>>
     ELSE /\ builds < limit
          /\ \E force \in BOOLEAN, zooms \in ZoomLists :
               b' = [Idle EXCEPT !.pc = "schema", !.client = c, !.force = force,
                                 !.zooms = zooms,
                                 !.rerun = /\ last.valid /\ last.n = builds
                                           /\ ~last.force /\ ~force
                                           /\ last.zooms = zooms
                                           /\ last.upstream = upstream]
          /\ lock' = TRUE
          /\ builds' = builds + 1
          /\ resp' = [resp EXCEPT ![c] = "running"]
          /\ step' = NoStep
          /\ seen' = NoSeen
          /\ UNCHANGED last
  /\ UNCHANGED <<store, views, upstream, q, op, sos, pwb, rq, fn>>

Post(c) == PostBuild(c, MaxBuilds)

\* storage.ensure_schema(conn) of the build
BuildSchema ==
  /\ b.pc = "schema"
  /\ views' = AllViews
  /\ b' = [b EXCEPT !.pc = "fetch", !.si = 1, !.ti = 1, !.yi = 1]
  /\ UNCHANGED <<lock, resp, store, upstream, builds, step, seen, last, q, op, sos, pwb, rq, fn>>

\* where the pipeline goes once the layer at src_zoom is in place: the next
\* derived zoom, the next year, the merge, the next taxon or the hotmaps
AfterLayer(bb) ==
  IF bb.zi <= Len(bb.zooms) THEN [bb EXCEPT !.pc = "mdel"]
  ELSE IF ~bb.all
       THEN IF bb.yi < Len(YearSeq)
            THEN [bb EXCEPT !.pc = "fetch", !.yi = bb.yi + 1]
            ELSE [bb EXCEPT !.pc = "merge"]
       ELSE IF bb.ti < Len(TaxonIds)
            THEN [bb EXCEPT !.pc = "fetch", !.ti = bb.ti + 1, !.yi = 1, !.all = FALSE,
                            !.payloads = <<>>]
            ELSE [bb EXCEPT !.pc = "hotmap", !.hy = 1, !.hz = 1]

\* a mutant of MustWrite: the layer is rewritten whatever the stored hash
MustWriteAlways(prev, sha, force) == TRUE

\* (not unchanged) or force
MustWrite(prev, sha, force) ==
  ~(prev # NULL /\ prev.payload_sha256 = sha) \/ force

\* the step for one layer starts: compare the hash, write or skip
BeginLayer(cells, isAll) ==
  LET sha == stable_gridcells_hash(cells, Base)
      yr == IF isAll THEN YEAR_ALL ELSE YearSeq[b.yi]
      prev == get_layer_state(taxon_layer_state[yr], Taxon, Base, Slot)
      write == MustWrite(prev, sha, b.force)
      nb == [b EXCEPT !.cells = cells, !.sha = sha, !.all = isAll, !.zi = 2,
                      !.src_zoom = Base,
                      !.payloads = IF isAll THEN b.payloads ELSE Append(b.payloads, cells)]
  IN /\ b' = IF write THEN [nb EXCEPT !.pc = "del"] ELSE AfterLayer(nb)
     /\ step' = [active |-> write, failed |-> FALSE, skip |-> ~write,
                 t |-> Taxon, z |-> Base, y |-> yr, s |-> Slot,
                 tg0 |-> taxon_grid, tls0 |-> taxon_layer_state,
                 new |-> CellView(cells, sha)]
     /\ seen' = NoSeen
     /\ UNCHANGED <<lock, resp, sos, pwb, rq, fn>>

\* client.geogrid_aggregation_resilient for one year, the hash and the
\* comparison with get_layer_state
Fetch ==
  /\ b.pc = "fetch"
  /\ \/ /\ RaiseAtFetch
        /\ UNCHANGED seen
     \/ LET payload_y == upstream[b.yi] IN
        IF HashRaises(payload_y)
        THEN RaiseAtFetch /\ UNCHANGED seen
        ELSE BeginLayer(payload_y, FALSE)
  /\ UNCHANGED <<store, views, upstream, builds, last, q, op, sos, pwb, rq, fn>>

\* the all-years bucket: merge the yearly payloads, hash, compare
Merge ==
  /\ b.pc = "merge"
  /\ BeginLayer(merge_payloads_gridcells(b.payloads), TRUE)
  /\ UNCHANGED <<store, views, upstream, builds, last, q, op, sos, pwb, rq, fn>>

\* replace_taxon_grid: the DELETE, then the rows are built
ReplaceDelete ==
  /\ b.pc = "del"
  /\ taxon_grid' = [taxon_grid EXCEPT ![Year] = DeleteLayer(@, Taxon, Base, Slot)]
  /\ IF ReplaceRaises(b.cells)
     THEN Raise
     ELSE /\ b' = [b EXCEPT !.rows = ReplaceRows(Taxon, Base, Slot, b.cells, builds),
                            !.pc = IF b.cells = <<>> THEN "ups" ELSE "ins"]
          /\ UNCHANGED <<lock, resp, step, sos, pwb, rq, fn>>
  /\ UNCHANGED <<taxon_layer_state, grid_hotmap, hotmap_taxa_set, views, upstream,
                 builds, seen, last, q, op, sos, pwb, rq, fn>>

\* replace_taxon_grid: executemany inserts the next row
ReplaceInsert ==
  /\ b.pc = "ins"
  /\ IF PkConflict(taxon_grid[Year], Head(b.rows))
     THEN Raise /\ UNCHANGED taxon_grid
     ELSE /\ taxon_grid' = [taxon_grid EXCEPT ![Year] = @ \cup {Head(b.rows)}]
          /\ b' = [b EXCEPT !.rows = Tail(b.rows),
                            !.pc = IF Tail(b.rows) = <<>> THEN "ups" ELSE "ins"]
          /\ UNCHANGED <<lock, resp, step, sos, pwb, rq, fn>>
  /\ UNCHANGED <<taxon_layer_state, grid_hotmap, hotmap_taxa_set, views, upstream,
                 builds, seen, last, q, op, sos, pwb, rq, fn>>

\* upsert_layer_state of the fetched or merged layer; the with-block ends
Upsert ==
  /\ b.pc = "ups"
  /\ taxon_layer_state' =
       [taxon_layer_state EXCEPT ![Year] =
          upsert_layer_state(@, Taxon, Base, Slot, b.sha, Len(b.cells), builds)]
  /\ b' = AfterLayer(b)
  /\ step' = [step EXCEPT !.active = FALSE]
  /\ UNCHANGED <<lock, resp, taxon_grid, grid_hotmap, hotmap_taxa_set, views, upstream,
                 builds, seen, last, q, op, sos, pwb, rq, fn>>

\* the rows of one layer in the order of their tiles
RECURSIVE RowsSorted(_)
RowsSorted(S) ==
  IF S = {} THEN <<>>
  ELSE LET m == MinTile({<<r.x, r.y>> : r \in S})
           r == CHOOSE r \in S : r.x = m[1] /\ r.y = m[2]
       IN <<r>> \o RowsSorted(S \ {r})

\* materialize_parent_zoom_from_child: the check of the zooms, the SELECT of
\* the aggregated child rows and the DELETE of the destination layer
MaterializeDelete ==
  /\ b.pc = "mdel"
  /\ LET dst_zoom == b.zooms[b.zi] IN
     IF dst_zoom >= b.src_zoom
     THEN Raise /\ UNCHANGED taxon_grid
     ELSE /\ taxon_grid' = [taxon_grid EXCEPT ![Year] = DeleteLayer(@, Taxon, dst_zoom, Slot)]
          /\ b' = [b EXCEPT
                     !.rows = RowsSorted(MaterializeRows(taxon_grid[Year], Taxon, Slot,
                                                         b.src_zoom, dst_zoom, builds)),
                     !.pc = IF LayerRows(taxon_grid[Year], Taxon, b.src_zoom, Slot) = {}
                            THEN "mups" ELSE "mins"]
          /\ UNCHANGED <<lock, resp, step, sos, pwb, rq, fn>>
  /\ UNCHANGED <<taxon_layer_state, grid_hotmap, hotmap_taxa_set, views, upstream,
                 builds, seen, last, q, op, sos, pwb, rq, fn>>

\* materialize_parent_zoom_from_child: executemany inserts the next parent row
MaterializeInsert ==
  /\ b.pc = "mins"
  /\ IF PkConflict(taxon_grid[Year], Head(b.rows))
     THEN Raise /\ UNCHANGED taxon_grid
     ELSE /\ taxon_grid' = [taxon_grid EXCEPT ![Year] = @ \cup {Head(b.rows)}]
          /\ b' = [b EXCEPT !.rows = Tail(b.rows),
                            !.pc = IF Tail(b.rows) = <<>> THEN "mups" ELSE "mins"]
          /\ UNCHANGED <<lock, resp, step, sos, pwb, rq, fn>>
  /\ UNCHANGED <<taxon_layer_state, grid_hotmap, hotmap_taxa_set, views, upstream,
                 builds, seen, last, q, op, sos, pwb, rq, fn>>

\* the marker of the derived layer; then src_zoom = dst_zoom, src_sha stays
MaterializeUpsert ==
  /\ b.pc = "mups"
  /\ LET dst_zoom == b.zooms[b.zi] IN
     /\ taxon_layer_state' =
          [taxon_layer_state EXCEPT ![Year] =
             upsert_layer_state(@, Taxon, dst_zoom, Slot,
                                local_from_marker(b.src_zoom, b.sha),
                                Cardinality(LayerRows(taxon_grid[Year], Taxon, dst_zoom, Slot)),
                                builds)]
     /\ b' = AfterLayer([b EXCEPT !.src_zoom = dst_zoom, !.zi = b.zi + 1])
  /\ UNCHANGED <<lock, resp, taxon_grid, grid_hotmap, hotmap_taxa_set, views, upstream,
                 builds, step, seen, last, q, op, sos, pwb, rq, fn>>

\* a mutant of HotmapYears: the bucket YEAR_ALL is left out
HotmapYearsNoAll == YearSeq

\* the year buckets the hotmaps are rebuilt for: the years, then YEAR_ALL
HotmapYears == YearSeq \o <<YEAR_ALL>>

\* rebuild_hotmap for the next (year bucket, zoom) of the slot
Hotmap ==
  /\ b.pc = "hotmap"
  /\ LET yr == HotmapYears[b.hy] IN
     /\ grid_hotmap' =
          [grid_hotmap EXCEPT ![yr] =
             rebuild_hotmap(@, taxon_grid[yr], b.zooms[b.hz], Slot, TaxonIds,
                            hotmap_alpha, hotmap_beta2, builds)]
     /\ hotmap_taxa_set' =
          [hotmap_taxa_set EXCEPT ![yr] =
             rebuild_taxa_set(@, b.zooms[b.hz], Slot, TaxonIds)]
  /\ b' = IF b.hz < Len(b.zooms) THEN [b EXCEPT !.hz = b.hz + 1]
          ELSE IF b.hy < Len(HotmapYears) THEN [b EXCEPT !.hy = b.hy + 1, !.hz = 1]
          ELSE IF b.si < Len(SlotsToBuild)
               THEN [b EXCEPT !.pc = "fetch", !.si = b.si + 1, !.ti = 1, !.yi = 1,
                              !.all = FALSE, !.payloads = <<>>]
               ELSE [b EXCEPT !.pc = "done"]
  /\ UNCHANGED <<lock, resp, taxon_grid, taxon_layer_state, views, upstream, builds,
                 step, seen, last, q, op, sos, pwb, rq, fn>>

\* return jsonify({"ok": True, ...}); finally: BUILD_LOCK.release()
Finish ==
  /\ b.pc = "done"
  /\ lock' = FALSE
  /\ resp' = [resp EXCEPT ![b.client] = "ok"]
  /\ last' = [valid |-> TRUE, n |-> builds, force |-> b.force, zooms |-> b.zooms, upstream |-> upstream,
              tg |-> taxon_grid, tls |-> taxon_layer_state, gh |-> grid_hotmap,
              hts |-> hotmap_taxa_set]
  /\ b' = Idle
  /\ UNCHANGED <<store, views, upstream, builds, step, seen, q, op, sos, pwb, rq, fn>>

\* the server process is killed during a build and started again: the lock
\* and the handlers are gone, the database file stays
Crash ==
  /\ b.pc \notin {"idle", "done"}
  /\ lock' = FALSE
  /\ resp' = [c \in Clients |-> "none"]
  /\ b' = Idle
  /\ step' = [step EXCEPT !.active = FALSE]
  /\ last' = NoLast
  /\ UNCHANGED <<store, views, upstream, builds, seen, q, op, sos, pwb, rq, fn>>

\* a reader selects the rows and the hash of the layer an ingest step writes
ReadLayer ==
  /\ step.active
  /\ seen' = [valid |-> TRUE,
              view |-> LayerView(taxon_grid[step.y], taxon_layer_state[step.y],
                                 step.t, step.z, step.s)]
  /\ UNCHANGED <<lock, resp, b, store, views, upstream, builds, step, last, q, op, sos, pwb, rq, fn>>

\* the upstream data changes between two builds
UpstreamChange ==
  /\ b.pc = "idle"
  /\ 0 < builds /\ builds < MaxBuilds
  /\ \E u \in [1..MaxYears -> Payloads] :
       /\ u # upstream
       /\ upstream' = u
  /\ UNCHANGED <<lock, resp, b, store, views, builds, step, seen, last, q, op, sos, pwb, rq, fn>>

Init ==
  /\ lock = FALSE
  /\ resp = [c \in Clients |-> "none"]
  /\ b = Idle
  /\ taxon_grid = NoRows
  /\ taxon_layer_state = NoRows
  /\ grid_hotmap = NoRows
  /\ hotmap_taxa_set = NoRows
  /\ views = {}
  /\ upstream \in [1..MaxYears -> Payloads]
  /\ builds = 0
  /\ step = NoStep
  /\ seen = NoSeen
  /\ last = NoLast
  /\ q = [h \in Handlers |-> NoQuery]
  /\ op = NoOp
  /\ sos = NoSos
  /\ pwb = NoPwb
  /\ rq = NoRq
  /\ fn = NoFn

Next ==
  \/ \E c \in Clients : Post(c)
  \/ BuildSchema
  \/ Fetch
  \/ Merge
  \/ ReplaceDelete
  \/ ReplaceInsert
  \/ Upsert
  \/ MaterializeDelete
  \/ MaterializeInsert
  \/ MaterializeUpsert
  \/ Hotmap
  \/ Finish
  \/ ReadLayer
  \/ UpstreamChange

Spec == Init /\ [][Next]_vars

\* one client, no reader; the process may be killed and started again
NextResume ==
  \/ PostBuild(1, MaxRuns)
  \/ BuildSchema
  \/ Fetch
  \/ Merge
  \/ ReplaceDelete
  \/ ReplaceInsert
  \/ Upsert
  \/ MaterializeDelete
  \/ MaterializeInsert
  \/ MaterializeUpsert
  \/ Hotmap
  \/ Finish
  \/ Crash

SpecResume == Init /\ [][NextResume]_vars

\* ------------------------------------------------------- the scripts

StoreTaxa == {1, 2}
TaxaLists == {<<>>, <<1>>, <<2>>, <<1, 2>>}

\* the payloads the scripts are let to ingest: no cell or one well-formed
\* cell; int(c.get("observationsCount") or 0) may be 0
StoreCells == {Cell(x, 0, o, TRUE) : x \in Xs, o \in 0..MaxObs}
StorePayloads == SeqsUpTo(StoreCells, 1)

\* --zooms of fetch_layers.py: base zoom first, then the derived zooms
FetchZoomLists ==
  UNION {{[i \in 1..n |-> base + 1 - i] : n \in 1..(base + 1)} : base \in (MaxZoom - 1)..MaxZoom}

has_any_taxon_grid(tg, t, z, s) == LayerRows(tg, t, z, s) # {}

\* fetch_layers.py: each derived zoom is kept when its marker is valid for
\* the base hash and it has rows, and materialized from the base otherwise
RECURSIVE FetchDerived(_, _, _, _, _, _, _, _)
FetchDerived(tg, tls, t, s, base, sha, zs, now) ==
  IF zs = <<>> THEN [tg |-> tg, tls |-> tls]
  ELSE LET z == Head(zs)
           prev_z == get_layer_state(tls, t, z, s)
           valid == /\ prev_z # NULL
                    /\ is_valid_local_from(prev_z.payload_sha256, base, sha)
       IN IF valid /\ has_any_taxon_grid(tg, t, z, s)
          THEN FetchDerived(tg, tls, t, s, base, sha, Tail(zs), now)
          ELSE FetchDerived(materialize_grid(tg, t, s, base, z, now),
                            materialize_state(tls, tg, t, s, base, z, sha, now),
                            t, s, base, sha, Tail(zs), now)

Before(name, zoom, taxon_ids, keep_zoom, year) ==
  [name |-> name, zoom |-> zoom, taxon_ids |-> taxon_ids, keep_zoom |-> keep_zoom,
   year |-> year, tg0 |-> taxon_grid, tls0 |-> taxon_layer_state, gh0 |-> grid_hotmap,
   hts0 |-> hotmap_taxa_set]

\* fetch_layers.py, one taxon: BEGIN ... commit around the base layer and
\* its derived zooms, in the bucket YEAR_ALL
FetchLayers ==
  /\ builds < MaxOps
  /\ \E t \in StoreTaxa, zooms \in FetchZoomLists, payload \in StorePayloads :
       LET now == builds + 1
           base == zooms[1]
           tg == taxon_grid[YEAR_ALL]
           tls == taxon_layer_state[YEAR_ALL]
           base_sha == stable_gridcells_hash(payload, base)
           prev_base == get_layer_state(tls, t, base, SLOT_ALL)
           base_changed == prev_base = NULL \/ prev_base.payload_sha256 # base_sha
           tg1 == IF base_changed
                  THEN replace_taxon_grid(tg, t, base, SLOT_ALL, payload, now).tg
                  ELSE tg
           tls1 == upsert_layer_state(tls, t, base, SLOT_ALL, base_sha, Len(payload), now)
           d == FetchDerived(tg1, tls1, t, SLOT_ALL, base, base_sha, Tail(zooms), now)
       IN /\ taxon_grid' = [taxon_grid EXCEPT ![YEAR_ALL] = d.tg]
          /\ taxon_layer_state' = [taxon_layer_state EXCEPT ![YEAR_ALL] = d.tls]
          /\ op' = Before("fetch_layers", base, <<t>>, None, YEAR_ALL)
  /\ builds' = builds + 1
  /\ UNCHANGED <<lock, resp, b, grid_hotmap, hotmap_taxa_set, views, upstream, step,
                 seen, last, q, sos, pwb, rq, fn>>

\* build_hotmap.py: BEGIN, rebuild_hotmap for one zoom, commit
BuildHotmap ==
  /\ builds < MaxOps
  /\ \E zoom \in Zooms, taxon_ids \in TaxaLists :
       /\ grid_hotmap' =
            [grid_hotmap EXCEPT ![YEAR_ALL] =
               rebuild_hotmap(@, taxon_grid[YEAR_ALL], zoom, SLOT_ALL, taxon_ids,
                              hotmap_alpha, hotmap_beta2, builds + 1)]
       /\ hotmap_taxa_set' =
            [hotmap_taxa_set EXCEPT ![YEAR_ALL] =
               rebuild_taxa_set(@, zoom, SLOT_ALL, taxon_ids)]
       /\ op' = Before("rebuild_hotmap", zoom, taxon_ids, None, YEAR_ALL)
  /\ builds' = builds + 1
  /\ UNCHANGED <<lock, resp, b, taxon_grid, taxon_layer_state, views, upstream, step,
                 seen, last, q, sos, pwb, rq, fn>>

\* clean_derived.py: BEGIN, clear_hotmap and/or clear_derived_zoom_cache in
\* the buckets of the year filter, commit
CleanDerived ==
  /\ builds < MaxOps
  /\ \E do_hotmap, do_derived \in BOOLEAN, zoom \in Zooms \cup {None}, keep_zoom \in Zooms,
        year \in {None, YEAR_ALL} :
       /\ do_hotmap \/ do_derived
       /\ (~do_hotmap \/ do_derived) => zoom = None
       /\ ~do_derived => keep_zoom = BaseZoom
       /\ grid_hotmap' =
            [y \in Buckets |->
               IF do_hotmap /\ Matches(y, year)
               THEN clear_hotmap(grid_hotmap[y], zoom, SLOT_ALL) ELSE grid_hotmap[y]]
       /\ hotmap_taxa_set' =
            [y \in Buckets |->
               IF do_hotmap /\ Matches(y, year)
               THEN clear_hotmap(hotmap_taxa_set[y], zoom, SLOT_ALL) ELSE hotmap_taxa_set[y]]
       /\ taxon_layer_state' =
            [y \in Buckets |->
               IF do_derived /\ Matches(y, year)
               THEN clear_derived_state(taxon_layer_state[y], keep_zoom, SLOT_ALL)
               ELSE taxon_layer_state[y]]
       /\ taxon_grid' =
            [y \in Buckets |->
               IF do_derived /\ Matches(y, year)
               THEN clear_derived_grid(taxon_grid[y], keep_zoom, SLOT_ALL)
               ELSE taxon_grid[y]]
       /\ op' = Before(IF do_derived THEN "clear_derived_zoom_cache" ELSE "clear_hotmap",
                       zoom, <<>>, keep_zoom, year)
  /\ builds' = builds + 1
  /\ UNCHANGED <<lock, resp, b, views, upstream, step, seen, last, q, sos, pwb, rq, fn>>

NextStore == FetchLayers \/ BuildHotmap \/ CleanDerived

\* the scripts run against a new database; no build is under way
InitStore == Init /\ upstream = [i \in 1..MaxYears |-> <<>>]

SpecStore == InitStore /\ [][NextStore]_vars

\* ------------------------------------------------ the query handlers

\* the view a query selects from, "" when it reads grid_hotmap itself
QueryView(kind) ==
  CASE kind = "hotmap" -> ""
    [] kind = "hotmap_window" -> ""
    [] kind = "cell_taxa" -> "grid_hotmap_taxa_names_v"
    [] kind = "cell_taxa_window" -> "grid_hotmap_taxa_names_v"
    [] kind = "rank_nearby" -> "grid_hotmap_v"

\* a GET arrives: the handler connects, sets autocommit and enters ensure_schema
QueryStart(h) ==
  /\ q[h].pc = "idle"
  /\ \E kind \in QueryKinds :
       q' = [q EXCEPT ![h] = [pc |-> "drop", i |-> 1, kind |-> kind, result |-> "none"]]
  /\ UNCHANGED <<lock, resp, b, store, views, upstream, builds, step, seen, last, op, sos, pwb, rq, fn>>

\* ensure_schema: the next DROP VIEW IF EXISTS
SchemaDrop(h) ==
  /\ q[h].pc = "drop"
  /\ views' = views \ {DropOrder[q[h].i]}
  /\ q' = [q EXCEPT ![h] = IF q[h].i < Len(DropOrder)
                           THEN [@ EXCEPT !.i = @ + 1]
                           ELSE [@ EXCEPT !.pc = "create", !.i = 1]]
  /\ UNCHANGED <<lock, resp, b, store, upstream, builds, step, seen, last, op, sos, pwb, rq, fn>>

\* ensure_schema: the next CREATE VIEW; sqlite3.OperationalError (the view
\* already exists) leaves the handler, which answers 500 db_error
SchemaCreate(h) ==
  /\ q[h].pc = "create"
  /\ IF CreateOrder[q[h].i] \in views
     THEN /\ q' = [q EXCEPT ![h] = [@ EXCEPT !.pc = "idle", !.result = "db_error"]]
          /\ UNCHANGED views
     ELSE /\ views' = views \cup {CreateOrder[q[h].i]}
          /\ q' = [q EXCEPT ![h] = IF q[h].i < Len(CreateOrder)
                                   THEN [@ EXCEPT !.i = @ + 1]
                                   ELSE [@ EXCEPT !.pc = "select"]]
  /\ UNCHANGED <<lock, resp, b, store, upstream, builds, step, seen, last, op, sos, pwb, rq, fn>>

\* the SELECT of the handler; sqlite3.OperationalError (no such table) when
\* its view does not exist
QuerySelect(h) ==
  /\ q[h].pc = "select"
  /\ q' = [q EXCEPT ![h] =
            [@ EXCEPT !.pc = "idle",
                      !.result = IF QueryView(q[h].kind) \in views \cup {""}
                                 THEN "ok" ELSE "db_error"]]
  /\ UNCHANGED <<lock, resp, b, store, views, upstream, builds, step, seen, last, op, sos, pwb, rq, fn>>

NextQuery ==
  \E h \in Handlers : QueryStart(h) \/ SchemaDrop(h) \/ SchemaCreate(h) \/ QuerySelect(h)

SpecQuery == Init /\ [][NextQuery]_vars

\* ---------------------------------------------------------------------
\* rebuild_hotmap with the caller's alpha and beta over a store of three taxa
\* (SpecScore)

MaxAlpha == 2
MaxBeta2 == 1
MaxRebuilds == 2

ScoreTaxa == <<1, 2, 3>>
ScoreObs == {0, 10, 20, 30}

\* what each taxon's base layer was fetched from: no cell, or one cell on tile
\* (0, 0)
ScorePayloads == {<<>>} \cup {<<Cell(0, 0, o, TRUE)>> : o \in ScoreObs}

\* the taxa lists a caller passes: the ascending sublists of ScoreTaxa
ScoreTaxaLists ==
  {T \in SeqsUpTo(Range(ScoreTaxa), Len(ScoreTaxa)) :
     \A i \in 1..Len(T), j \in 1..Len(T) : i < j => T[i] < T[j]}

\* replace_taxon_grid and upsert_layer_state for each taxon's payload on an
\* empty store
RECURSIVE ScoreGrid(_, _, _)
ScoreGrid(tg, payloads, i) ==
  IF i > Len(ScoreTaxa) THEN tg
  ELSE ScoreGrid(replace_taxon_grid(tg, ScoreTaxa[i], BaseZoom, SLOT_ALL, payloads[i], 0).tg,
                 payloads, i + 1)

RECURSIVE ScoreState(_, _, _)
ScoreState(tls, payloads, i) ==
  IF i > Len(ScoreTaxa) THEN tls
  ELSE ScoreState(upsert_layer_state(tls, ScoreTaxa[i], BaseZoom, SLOT_ALL,
                                     stable_gridcells_hash(payloads[i], BaseZoom),
                                     Len(payloads[i]), 0),
                  payloads, i + 1)

InitScore ==
  /\ lock = FALSE
  /\ resp = [c \in Clients |-> "none"]
  /\ b = Idle
  /\ \E payloads \in [1..Len(ScoreTaxa) -> ScorePayloads] :
       /\ taxon_grid = [NoRows EXCEPT ![YEAR_ALL] = ScoreGrid({}, payloads, 1)]
       /\ taxon_layer_state = [NoRows EXCEPT ![YEAR_ALL] = ScoreState({}, payloads, 1)]
  /\ grid_hotmap = NoRows
  /\ hotmap_taxa_set = NoRows
  /\ views = AllViews
  /\ upstream = [i \in 1..MaxYears |-> <<>>]
  /\ builds = 0
  /\ step = NoStep
  /\ seen = NoSeen
  /\ last = NoLast
  /\ q = [h \in Handlers |-> NoQuery]
  /\ op = NoOp
  /\ sos = NoSos
  /\ pwb = NoPwb
  /\ rq = NoRq
  /\ fn = NoFn

\* rebuild_hotmap(conn, zoom, slot_id, taxon_ids, alpha=alpha, beta=beta) in
\* one transaction
ScoreRebuild ==
  /\ builds < MaxRebuilds
  /\ \E taxon_ids \in ScoreTaxaLists, alpha \in 0..MaxAlpha, beta2 \in 0..MaxBeta2 :
       /\ grid_hotmap' =
            [grid_hotmap EXCEPT ![YEAR_ALL] =
               rebuild_hotmap(@, taxon_grid[YEAR_ALL], BaseZoom, SLOT_ALL, taxon_ids,
                              alpha, beta2, builds + 1)]
       /\ hotmap_taxa_set' =
            [hotmap_taxa_set EXCEPT ![YEAR_ALL] =
               rebuild_taxa_set(@, BaseZoom, SLOT_ALL, taxon_ids)]
       /\ op' = [name |-> "rebuild_hotmap", zoom |-> BaseZoom, taxon_ids |-> taxon_ids,
                 alpha |-> alpha, beta2 |-> beta2, year |-> YEAR_ALL,
                 gh0 |-> grid_hotmap, hts0 |-> hotmap_taxa_set]
  /\ builds' = builds + 1
  /\ UNCHANGED <<lock, resp, b, taxon_grid, taxon_layer_state, views, upstream, step,
                 seen, last, q, sos, pwb, rq, fn>>

NextScore == ScoreRebuild

SpecScore == InitScore /\ [][NextScore]_vars

\* ---------------------------------------------------------------------
\* replace_taxon_grid and materialize_parent_zoom_from_child called for any
\* pair of zooms, each in one transaction (SpecDerive)

MaxDerives == 3

DeriveXs == 0..(MaxX + 1)
DeriveYs == 0..1
DeriveCells == {Cell(x, y, o, TRUE) : x \in DeriveXs, y \in DeriveYs, o \in 1..(MaxObs + 1)}

\* the payloads of the base layer: up to MaxCells cells of distinct tiles, in
\* tile order
DerivePayloads ==
  {p \in SeqsUpTo(DeriveCells, MaxCells) :
     \A i \in 1..Len(p), j \in 1..Len(p) :
        i < j => (p[i].x < p[j].x \/ (p[i].x = p[j].x /\ p[i].y < p[j].y))}

\* the hashes a caller can hold: the hash of a fetched layer of the store,
\* or the hash of the empty payload
KnownShas(tls) ==
  {r.payload_sha256 : r \in {st \in tls : ~IsLocalFrom(st.payload_sha256)}}
  \cup {Sha(<<>>)}

NoDerive ==
  [name |-> "none", taxon_id |-> 0, year |-> YEAR_ALL, src_zoom |-> 0, dst_zoom |-> 0,
   src_sha |-> NULL, raised |-> FALSE, tg0 |-> NoRows, tls0 |-> NoRows]

InitDerive ==
  /\ lock = FALSE
  /\ resp = [c \in Clients |-> "none"]
  /\ b = Idle
  /\ taxon_grid = NoRows
  /\ taxon_layer_state = NoRows
  /\ grid_hotmap = NoRows
  /\ hotmap_taxa_set = NoRows
  /\ views = AllViews
  /\ upstream = [i \in 1..MaxYears |-> <<>>]
  /\ builds = 0
  /\ step = NoStep
  /\ seen = NoSeen
  /\ last = NoLast
  /\ q = [h \in Handlers |-> NoQuery]
  /\ op = NoDerive
  /\ sos = NoSos
  /\ pwb = NoPwb
  /\ rq = NoRq
  /\ fn = NoFn

\* replace_taxon_grid and upsert_layer_state of the base layer, committed
\* together
DeriveReplace ==
  /\ builds < MaxDerives
  /\ \E payload \in DerivePayloads :
       LET now == builds + 1
           t == TaxonIds[1]
           sha == stable_gridcells_hash(payload, BaseZoom)
       IN /\ taxon_grid' =
               [taxon_grid EXCEPT ![YEAR_ALL] =
                  replace_taxon_grid(@, t, BaseZoom, SLOT_ALL, payload, now).tg]
          /\ taxon_layer_state' =
               [taxon_layer_state EXCEPT ![YEAR_ALL] =
                  upsert_layer_state(@, t, BaseZoom, SLOT_ALL, sha, Len(payload), now)]
          /\ op' = [NoDerive EXCEPT !.name = "replace_taxon_grid", !.taxon_id = t,
                                    !.dst_zoom = BaseZoom, !.src_sha = sha,
                                    !.tg0 = taxon_grid, !.tls0 = taxon_layer_state]
  /\ builds' = builds + 1
  /\ UNCHANGED <<lock, resp, b, grid_hotmap, hotmap_taxa_set, views, upstream, step,
                 seen, last, q, sos, pwb, rq, fn>>

\* materialize_parent_zoom_from_child in one transaction; ValueError before
\* any statement when dst_zoom >= src_zoom
DeriveMaterialize ==
  /\ builds < MaxDerives
  /\ \E src_zoom \in Zooms, dst_zoom \in Zooms,
        src_sha \in KnownShas(taxon_layer_state[YEAR_ALL]) :
       LET now == builds + 1
           t == TaxonIds[1]
           raised == dst_zoom >= src_zoom
       IN /\ taxon_grid' =
               [taxon_grid EXCEPT ![YEAR_ALL] =
                  IF raised THEN @
                  ELSE materialize_grid(@, t, SLOT_ALL, src_zoom, dst_zoom, now)]
          /\ taxon_layer_state' =
               [taxon_layer_state EXCEPT ![YEAR_ALL] =
                  IF raised THEN @
                  ELSE materialize_state(@, taxon_grid[YEAR_ALL], t, SLOT_ALL, src_zoom,
                                         dst_zoom, src_sha, now)]
          /\ op' = [NoDerive EXCEPT !.name = "materialize_parent_zoom_from_child",
                                    !.taxon_id = t, !.src_zoom = src_zoom,
                                    !.dst_zoom = dst_zoom, !.src_sha = src_sha,
                                    !.raised = raised,
                                    !.tg0 = taxon_grid, !.tls0 = taxon_layer_state]
  /\ builds' = builds + 1
  /\ UNCHANGED <<lock, resp, b, grid_hotmap, hotmap_taxa_set, views, upstream, step,
                 seen, last, q, sos, pwb, rq, fn>>

NextDerive ==
  \/ DeriveReplace
  \/ DeriveMaterialize

SpecDerive == InitDerive /\ [][NextDerive]_vars

\* ---------------------------------------------------------------------
\* the storage functions on the tables as the DDL of storage.py creates them
\* (SpecFrame).  The DDL has no year column and the statements no year
\* condition: a row is kept under the year bucket its caller wrote it for,
\* and a statement acts on the rows of every bucket.

MaxFrames == 3

AllRows(table) == UNION {table[y] : y \in Buckets}

NoFrame ==
  [name |-> "none", taxon_id |-> 0, zoom |-> 0, year |-> YEAR_ALL,
   tg0 |-> NoRows, tls0 |-> NoRows, gh0 |-> NoRows, hts0 |-> NoRows]

Frame(name, t, z, yr) ==
  [name |-> name, taxon_id |-> t, zoom |-> z, year |-> yr,
   tg0 |-> taxon_grid, tls0 |-> taxon_layer_state, gh0 |-> grid_hotmap,
   hts0 |-> hotmap_taxa_set]

\* the table after a statement: the rows each bucket keeps, and the rows the
\* caller of bucket yr inserted
Written(table, after, yr) ==
  [y \in Buckets |->
     (table[y] \cap after) \cup (IF y = yr THEN after \ AllRows(table) ELSE {})]

InitFrame ==
  /\ lock = FALSE
  /\ resp = [c \in Clients |-> "none"]
  /\ b = Idle
  /\ taxon_grid = NoRows
  /\ taxon_layer_state = NoRows
  /\ grid_hotmap = NoRows
  /\ hotmap_taxa_set = NoRows
  /\ views = AllViews
  /\ upstream = [i \in 1..MaxYears |-> <<>>]
  /\ builds = 0
  /\ step = NoStep
  /\ seen = NoSeen
  /\ last = NoLast
  /\ q = [h \in Handlers |-> NoQuery]
  /\ op = NoFrame
  /\ sos = NoSos
  /\ pwb = NoPwb
  /\ rq = NoRq
  /\ fn = NoFn

\* replace_taxon_grid and upsert_layer_state for the layer (t, z, yr, s)
FrameReplace ==
  /\ builds < MaxFrames
  /\ \E t \in StoreTaxa, z \in Zooms, yr \in Buckets, payload \in StorePayloads :
       LET now == builds + 1
           sha == stable_gridcells_hash(payload, z)
       IN /\ taxon_grid' =
               Written(taxon_grid,
                       replace_taxon_grid(AllRows(taxon_grid), t, z, SLOT_ALL, payload, now).tg,
                       yr)
          /\ taxon_layer_state' =
               Written(taxon_layer_state,
                       upsert_layer_state(AllRows(taxon_layer_state), t, z, SLOT_ALL, sha,
                                          Len(payload), now),
                       yr)
          /\ op' = Frame("replace_taxon_grid", t, z, yr)
  /\ builds' = builds + 1
  /\ UNCHANGED <<lock, resp, b, grid_hotmap, hotmap_taxa_set, views, upstream, step,
                 seen, last, q, sos, pwb, rq, fn>>

\* materialize_parent_zoom_from_child for the layer (t, dst_zoom, yr, s)
FrameMaterialize ==
  /\ builds < MaxFrames
  /\ \E t \in StoreTaxa, yr \in Buckets, src_zoom \in Zooms, dst_zoom \in Zooms :
       /\ dst_zoom < src_zoom
       /\ LET now == builds + 1
              st == get_layer_state(AllRows(taxon_layer_state), t, src_zoom, SLOT_ALL)
              src_sha == IF st # NULL /\ ~IsLocalFrom(st.payload_sha256)
                         THEN st.payload_sha256 ELSE Sha(<<>>)
          IN /\ taxon_grid' =
                  Written(taxon_grid,
                          materialize_grid(AllRows(taxon_grid), t, SLOT_ALL, src_zoom,
                                           dst_zoom, now),
                          yr)
             /\ taxon_layer_state' =
                  Written(taxon_layer_state,
                          materialize_state(AllRows(taxon_layer_state), AllRows(taxon_grid),
                                            t, SLOT_ALL, src_zoom, dst_zoom, src_sha, now),
                          yr)
             /\ op' = Frame("materialize_parent_zoom_from_child", t, dst_zoom, yr)
  /\ builds' = builds + 1
  /\ UNCHANGED <<lock, resp, b, grid_hotmap, hotmap_taxa_set, views, upstream, step,
                 seen, last, q, sos, pwb, rq, fn>>

\* rebuild_hotmap for the key (zoom, yr, s)
FrameRebuild ==
  /\ builds < MaxFrames
  /\ \E zoom \in Zooms, yr \in Buckets, taxon_ids \in TaxaLists :
       /\ grid_hotmap' =
            Written(grid_hotmap,
                    rebuild_hotmap(AllRows(grid_hotmap), AllRows(taxon_grid), zoom, SLOT_ALL,
                                   taxon_ids, hotmap_alpha, hotmap_beta2, builds + 1),
                    yr)
       /\ hotmap_taxa_set' =
            Written(hotmap_taxa_set,
                    rebuild_taxa_set(AllRows(hotmap_taxa_set), zoom, SLOT_ALL, taxon_ids),
                    yr)
       /\ op' = Frame("rebuild_hotmap", 0, zoom, yr)
  /\ builds' = builds + 1
  /\ UNCHANGED <<lock, resp, b, taxon_grid, taxon_layer_state, views, upstream, step,
                 seen, last, q, sos, pwb, rq, fn>>

NextFrame ==
  \/ FrameReplace
  \/ FrameMaterialize
  \/ FrameRebuild

SpecFrame == InitFrame /\ [][NextFrame]_vars

\* ---------------------------------------------------------------------
\* geomap/sos_client.py: one call of geogrid_aggregation_resilient, a step
\* per upstream request and per return of _try (SpecClient)

MaxDepth == 1

\* _split_bbox_4 returns four boxes
Quadrants == 4

\* the cells the upstream holds for a bbox: none, or one cell; a tile on the
\* border of two quadrants is returned for both
ClientCells == {Cell(x, 0, 1, TRUE) : x \in 0..1}
ClientPayloads == SeqsUpTo(ClientCells, 1)

\* what the upstream answers to one POST: 200 and the cells, or a status and
\* a body that end up in the message of the RuntimeError
Answers ==
  {[status |-> 200, msg |-> "", cells |-> p] : p \in ClientPayloads}
  \cup {[status |-> 400, msg |-> m, cells |-> <<>>] :
          m \in {"number of cells that can be returned is too large",
                 "limit is 65535 cells", "bad request"}}
  \cup {[status |-> 429, msg |-> "too many requests", cells |-> <<>>],
        [status |-> 500, msg |-> "server error", cells |-> <<>>]}

\* a mutant of too_big: every RuntimeError counts as too many cells
too_big_any(msg) == TRUE

\* too_big = "number of cells that can be returned is too large" in msg
\*           or "limit is 65535 cells" in msg
too_big(msg) ==
  msg \in {"number of cells that can be returned is too large", "limit is 65535 cells"}

\* a mutant of MustSplit: the depth test is off by one
MustSplitDeeper(msg, depth, max_depth) == ~((~too_big(msg)) \/ depth > max_depth)

\* not ((not too_big) or depth >= max_depth): the except branch goes on to
\* split
MustSplit(msg, depth, max_depth) == ~((~too_big(msg)) \/ depth >= max_depth)

\* a mutant of MergeCell: the count of a tile seen before is not added
MergeCellKeepFirst(merged, c) ==
  IF \E i \in DOMAIN merged : merged[i].x = c.x /\ merged[i].y = c.y
  THEN merged
  ELSE Append(merged, c)

\* one cell into the dict merged: the cell itself for a new key (x, y), the
\* observationsCount added for a key seen before; the dict keeps the order of
\* first insertion
MergeCell(merged, c) ==
  IF \E i \in DOMAIN merged : merged[i].x = c.x /\ merged[i].y = c.y
  THEN LET i == CHOOSE i \in DOMAIN merged : merged[i].x = c.x /\ merged[i].y = c.y
       IN [merged EXCEPT ![i].observationsCount = @ + c.observationsCount]
  ELSE Append(merged, c)

RECURSIVE MergeCells(_, _)
MergeCells(merged, cells) ==
  IF cells = <<>> THEN merged
  ELSE MergeCells(MergeCell(merged, Head(cells)), Tail(cells))

\* _merge_geogrid_payloads: the gridCells of the merged payload
merge_geogrid_payloads(payloads) == MergeCells(<<>>, Flatten(payloads))

\* the locals of one _try: its depth, whether it has split its bbox, the
\* requests it made and the sub-payloads of the quadrants gone through
TryFrame(depth) == [depth |-> depth, split |-> FALSE, tries |-> 0, subs |-> <<>>]

Top == sos.stack[Len(sos.stack)]

InitClient ==
  /\ lock = FALSE
  /\ resp = [c \in Clients |-> "none"]
  /\ b = Idle
  /\ taxon_grid = NoRows
  /\ taxon_layer_state = NoRows
  /\ grid_hotmap = NoRows
  /\ hotmap_taxa_set = NoRows
  /\ views = AllViews
  /\ upstream = [i \in 1..MaxYears |-> <<>>]
  /\ builds = 0
  /\ step = NoStep
  /\ seen = NoSeen
  /\ last = NoLast
  /\ q = [h \in Handlers |-> NoQuery]
  /\ op = NoOp
  /\ sos = NoSos
  /\ pwb = NoPwb
  /\ rq = NoRq
  /\ fn = NoFn

\* geogrid_aggregation_resilient(..., max_depth=max_depth): return _try(bb, 0)
ClientCall ==
  /\ sos.status = "idle"
  /\ \E max_depth \in 0..MaxDepth :
       sos' = [NoSos EXCEPT !.status = "running", !.max_depth = max_depth,
                            !.stack = <<TryFrame(0)>>]
  /\ UNCHANGED <<lock, resp, b, store, views, upstream, builds, step, seen, last, q, op, pwb, rq, fn>>

\* _try: self.geogrid_aggregation(...) posts once; 200 is returned, a
\* RuntimeError is raised again unless the bbox is to be split
ClientRequest ==
  /\ sos.status = "running" /\ ~sos.ret.has /\ ~Top.split
  /\ \E a \in Answers :
       LET n == Len(sos.stack)
           asked == [sos EXCEPT !.requests = @ + 1, !.answer = a, !.stack[n].tries = @ + 1]
       IN sos' = IF a.status = 200
                 THEN [asked EXCEPT !.ret = [has |-> TRUE, cells |-> a.cells]]
                 ELSE IF MustSplit(a.msg, Top.depth, sos.max_depth)
                 THEN [asked EXCEPT !.stack = Append([@ EXCEPT ![n].split = TRUE],
                                                     TryFrame(Top.depth + 1))]
                 ELSE [asked EXCEPT !.status = "failed", !.stack = <<>>,
                                    !.tries = Top.tries + 1]
  /\ UNCHANGED <<lock, resp, b, store, views, upstream, builds, step, seen, last, q, op, pwb, rq, fn>>

\* a _try returns its payload: to the caller of geogrid_aggregation_resilient,
\* or into sub_payloads of the _try that split, which goes on with the next
\* quadrant or returns _merge_geogrid_payloads(sub_payloads)
ClientReturn ==
  /\ sos.status = "running" /\ sos.ret.has
  /\ LET n == Len(sos.stack) IN
     IF n = 1
     THEN sos' = [sos EXCEPT !.status = "ok", !.stack = <<>>, !.result = sos.ret,
                             !.ret = NoPayload]
     ELSE LET subs == Append(sos.stack[n - 1].subs, sos.ret.cells)
              rest == [SubSeq(sos.stack, 1, n - 1) EXCEPT ![n - 1].subs = subs]
          IN sos' = IF Len(subs) < Quadrants
                    THEN [sos EXCEPT !.ret = NoPayload,
                                     !.stack = Append(rest, TryFrame(sos.stack[n].depth))]
                    ELSE [sos EXCEPT !.ret = [has |-> TRUE, cells |-> merge_geogrid_payloads(subs)],
                                     !.stack = rest]
  /\ UNCHANGED <<lock, resp, b, store, views, upstream, builds, step, seen, last, q, op, pwb, rq, fn>>

NextClient ==
  \/ ClientCall
  \/ ClientRequest
  \/ ClientReturn

SpecClient == InitClient /\ [][NextClient]_vars

\* the interpreter runs the call on: no step that can be taken is put off
\* for ever
SpecClientLive == SpecClient /\ WF_vars(NextClient)

\* =================================================================
\* sos_export.py: post_with_backoff.  Times are in half seconds, so that
\* the 0.5 s that time.sleep adds is one unit.  The code looks at the clock
\* only in throttle, as time.time() - _LAST_TS: pwb.since is that
\* difference, and a throttle that returns sets it to 0.
\* =================================================================
MaxRetries == 2
MaxCalls == 2

\* the defaults of post_with_backoff
max_retries == 8
min_interval_s == 15

HalfSeconds(s) == 2 * s

\* no build, no script and no client call is running or has run
Calm ==
  /\ lock = FALSE
  /\ resp = [c \in Clients |-> "none"]
  /\ b = Idle
  /\ views = AllViews
  /\ upstream = [i \in 1..MaxYears |-> <<>>]
  /\ builds = 0
  /\ step = NoStep
  /\ seen = NoSeen
  /\ last = NoLast
  /\ q = [h \in Handlers |-> NoQuery]
  /\ op = NoOp
  /\ sos = NoSos

\* and the store is empty
Quiet ==
  /\ Calm
  /\ taxon_grid = NoRows
  /\ taxon_layer_state = NoRows
  /\ grid_hotmap = NoRows
  /\ hotmap_taxa_set = NoRows

quiet == <<lock, resp, b, store, views, upstream, builds, step, seen, last, q, op, sos>>

\* what the upstream answers: a 429 comes with a Retry-After header that
\* is absent, an integer or an HTTP date, and with or without the phrase
\* "Try again in N seconds" in its body
RetryAfterHeaders ==
  {[kind |-> "none", n |-> 0], [kind |-> "date", n |-> 0]}
    \cup {[kind |-> "int", n |-> n] : n \in {-5, 0, 5, 200}}
BodyHints == {[has |-> FALSE, n |-> 0], [has |-> TRUE, n |-> 30]}
Responses ==
  {[status |-> st, header |-> NoResponse.header, hint |-> NoResponse.hint] : st \in {200, 500}}
    \cup {[status |-> 429, header |-> h, hint |-> m] : h \in RetryAfterHeaders, m \in BodyHints}

\* how long a POST takes, and how long the caller stays away between calls
Latencies == {0, HalfSeconds(3)}
IdleTimes == {0, HalfSeconds(20)}
RetryChoices == (0..MaxRetries) \cup {max_retries}
IntervalChoices == {min_interval_s, 2 * min_interval_s}

\* parse_retry_after_seconds: int(ra) of a header that is there and parses,
\* else the number of the body phrase, else None
parse_retry_after_seconds(r) ==
  IF r.header.kind = "int" THEN [some |-> TRUE, n |-> r.header.n]
  ELSE IF r.hint.has THEN [some |-> TRUE, n |-> r.hint.n]
  ELSE [some |-> FALSE, n |-> 0]

Max2(m, n) == IF m >= n THEN m ELSE n
Min2(m, n) == IF m <= n THEN m ELSE n

\* delay = parse_retry_after_seconds(resp) or 60 (None and 0 are both false);
\* time.sleep(min(max(delay, 1), 120) + 0.5)
backoff_sleep(r) ==
  LET p == parse_retry_after_seconds(r)
      delay == IF p.some /\ p.n # 0 THEN p.n ELSE 60
  IN HalfSeconds(Min2(Max2(delay, 1), 120)) + 1

throttle_wait_none(interval, since) == 0

\* throttle: wait = (_LAST_TS + min_interval_s) - now, slept when positive
throttle_wait(interval, since) == Max2(HalfSeconds(interval) - since, 0)

\* _LAST_TS = 0.0, and the process starts long after the epoch
StartTimes == {HalfSeconds(1000)}

InitPost ==
  /\ Quiet
  /\ \E t \in StartTimes : pwb = [NoPwb EXCEPT !.since = t]
  /\ rq = NoRq
  /\ fn = NoFn

\* post_with_backoff(url, headers, params, body, min_interval_s=, max_retries=)
PostCall ==
  /\ pwb.pc \in {"idle", "returned"}
  /\ pwb.calls < MaxCalls
  /\ \E n \in RetryChoices, i \in IntervalChoices, d \in IdleTimes :
       pwb' = [pwb EXCEPT !.pc = "loop", !.since = @ + d, !.max_retries = n,
                          !.min_interval_s = i, !.attempt = 0, !.last = NoResponse,
                          !.returned = NoResponse, !.posts = 0, !.statuses = <<>>,
                          !.gap = -1, !.slept = 0, !.calls = @ + 1]
  /\ UNCHANGED <<quiet, rq, fn>>

\* for _attempt in range(max_retries): throttle(min_interval_s)
PostThrottle ==
  /\ pwb.pc = "loop" /\ pwb.attempt < pwb.max_retries
  /\ LET woke == pwb.since + throttle_wait(pwb.min_interval_s, pwb.since)
     IN pwb' = [pwb EXCEPT !.pc = "throttled", !.since = 0,
                           !.gap = IF pwb.sent THEN woke ELSE -1]
  /\ UNCHANGED <<quiet, rq, fn>>

\* resp = requests.post(...); last = resp.  The POST goes out as throttle
\* returns: pwb.gap is the time since the POST before it
PostRequest ==
  /\ pwb.pc = "throttled"
  /\ \E r \in Responses, d \in Latencies :
       pwb' = [pwb EXCEPT !.pc = "posted", !.since = @ + d, !.last = r,
                          !.posts = @ + 1, !.sent = TRUE,
                          !.statuses = Append(@, r.status)]
  /\ UNCHANGED <<quiet, rq, fn>>

\* if resp.status_code != 429: return resp
PostReturn ==
  /\ pwb.pc = "posted" /\ pwb.last.status # 429
  /\ pwb' = [pwb EXCEPT !.pc = "returned", !.returned = pwb.last]
  /\ UNCHANGED <<quiet, rq, fn>>

\* delay = ...; time.sleep(...): the loop goes on
PostSleep ==
  /\ pwb.pc = "posted" /\ pwb.last.status = 429
  /\ pwb' = [pwb EXCEPT !.pc = "loop", !.since = @ + backoff_sleep(pwb.last),
                        !.slept = backoff_sleep(pwb.last), !.attempt = @ + 1]
  /\ UNCHANGED <<quiet, rq, fn>>

\* the loop is over: return last
PostExhausted ==
  /\ pwb.pc = "loop" /\ pwb.attempt >= pwb.max_retries
  /\ pwb' = [pwb EXCEPT !.pc = "returned", !.returned = pwb.last]
  /\ UNCHANGED <<quiet, rq, fn>>

NextPost ==
  \/ PostCall
  \/ PostThrottle
  \/ PostRequest
  \/ PostReturn
  \/ PostSleep
  \/ PostExhausted

SpecPost == InitPost /\ [][NextPost]_vars

\* =================================================================
\* app.py: the six operations that take slot and year parameters, one
\* request at a time, from the parameters to the answer
\* =================================================================
Ok(v) == [ok |-> TRUE, v |-> v, code |-> ""]
BadRequest == [ok |-> FALSE, v |-> 0, code |-> "bad_request"]
ValueError == [ok |-> FALSE, v |-> 0, code |-> "internal_error"]

Default(arg, dflt) == IF arg.kind = "absent" THEN Num(dflt) ELSE arg

\* int(value) of a handler, outside any try
int(arg) == IF arg.kind = "int" THEN Ok(arg.n) ELSE ValueError

\* parse_slot_id
parse_slot_id(value) ==
  IF value.kind # "int" THEN BadRequest
  ELSE IF value.n < SLOT_MIN \/ value.n > SLOT_MAX THEN BadRequest
  ELSE Ok(value.n)

\* parse_year
parse_year(value) ==
  IF value.kind # "int" THEN BadRequest
  ELSE IF value.n = YEAR_ALL THEN Ok(YEAR_ALL)
  ELSE IF value.n < YEAR_MIN \/ value.n > YEAR_MAX THEN BadRequest
  ELSE Ok(value.n)

\* parse_year_range_args
parse_year_range_args(year_from, year_to) ==
  IF year_from.kind = "absent" /\ year_to.kind = "absent" THEN Ok(<<YEAR_ALL, YEAR_ALL>>)
  ELSE LET yf == IF year_from.kind = "absent" THEN year_to ELSE year_from
           yt == IF year_to.kind = "absent" THEN yf ELSE year_to
           yf_i == parse_year(yf)
           yt_i == parse_year(yt)
       IN IF ~yf_i.ok THEN yf_i
          ELSE IF ~yt_i.ok THEN yt_i
          ELSE IF yf_i.v = YEAR_ALL \/ yt_i.v = YEAR_ALL THEN Ok(<<YEAR_ALL, YEAR_ALL>>)
          ELSE IF yf_i.v > yt_i.v THEN Ok(<<yt_i.v, yf_i.v>>)
          ELSE Ok(<<yf_i.v, yt_i.v>>)

\* parse_slot_ids_arg: the sorted unique slots, as a set
parse_slot_ids_arg(value) ==
  IF ~value.given THEN BadRequest
  ELSE IF \E i \in DOMAIN value.vals : ~parse_slot_id(value.vals[i]).ok THEN BadRequest
  ELSE LET out == {value.vals[i].n : i \in DOMAIN value.vals}
       IN IF SLOT_ALL \in out /\ Cardinality(out) > 1 THEN BadRequest ELSE Ok(out)

\* pipeline_build, slots_to_build: slot_id is parsed first, then slot_ids
\* one by one; 0 may come with other slots
slots_to_build(slot_id, slot_ids) ==
  LET one == parse_slot_id(Default(slot_id, SLOT_ALL))
  IN IF ~one.ok THEN one
     ELSE IF ~slot_ids.given THEN Ok({one.v})
     ELSE IF \E i \in DOMAIN slot_ids.vals : ~parse_slot_id(slot_ids.vals[i]).ok
          THEN BadRequest
     ELSE Ok({slot_ids.vals[i].n : i \in DOMAIN slot_ids.vals})

\* pipeline_build, year_from and year_to: int() and the swap, no parse_year
build_years(year_from, year_to) ==
  LET yf == int(Default(year_from, YearFrom))
      yt == int(Default(year_to, YearFrom + MaxYears - 1))
  IN IF ~yf.ok THEN yf
     ELSE IF ~yt.ok THEN yt
     ELSE IF yt.v < yf.v THEN Ok(<<yt.v, yf.v>>) ELSE Ok(<<yf.v, yt.v>>)

SlotOps == {"hotmap", "cell_taxa", "rank_nearby"}
WindowOps == {"hotmap_window", "cell_taxa_window"}
Ops == SlotOps \cup WindowOps \cup {"pipeline_build"}

ZoomArgs == {Absent, Text, Num(BaseZoom)}
SlotArgs == {Absent, Text} \cup {Num(n) : n \in {SLOT_MIN - 1, SLOT_ALL, 1, SLOT_MAX, SLOT_MAX + 1}}
SlotListArgs ==
  {NoList} \cup {[given |-> TRUE, vals |-> l] :
                   l \in SeqsUpTo({Num(n) : n \in {SLOT_ALL, 1, 2, SLOT_MAX + 1}}, 2)}
YearArgs ==
  {Absent, Text} \cup {Num(n) : n \in {YEAR_ALL, YEAR_MIN - 1, YEAR_MIN, YearFrom, YEAR_MAX + 1}}

\* the parameters are parsed in the order of the handler's statements; the
\* first that fails decides the answer.  rank_nearby parses the years after
\* ensure_schema.
ParseArgs(r) ==
  LET zoom == int(Default(r.zoom, BaseZoom))
      slot == parse_slot_id(Default(r.slot_id, SLOT_ALL))
      slots == parse_slot_ids_arg(r.slot_ids)
      years == parse_year_range_args(r.year_from, r.year_to)
      built == slots_to_build(r.slot_id, r.slot_ids)
      span == build_years(r.year_from, r.year_to)
  IN IF r.op = "pipeline_build"
     THEN IF ~built.ok THEN built
          ELSE IF ~int(Default(r.zoom, BaseZoom)).ok THEN ValueError
          ELSE IF ~span.ok THEN span
          ELSE Ok([zoom |-> zoom.v, slots |-> built.v, years |-> span.v])
     ELSE IF ~zoom.ok THEN zoom
     ELSE IF r.op \in SlotOps
     THEN IF ~slot.ok THEN slot
          ELSE IF r.op = "rank_nearby" THEN Ok([zoom |-> zoom.v, slots |-> {slot.v}, years |-> <<0, 0>>])
          ELSE IF ~years.ok THEN years
          ELSE Ok([zoom |-> zoom.v, slots |-> {slot.v}, years |-> years.v])
     ELSE IF ~slots.ok THEN slots
          ELSE IF ~years.ok THEN years
          ELSE Ok([zoom |-> zoom.v, slots |-> slots.v, years |-> years.v])

StatusOf(code) == IF code = "bad_request" THEN 400 ELSE 500

Answer(r, status, code) == [r EXCEPT !.pc = "done", !.status = status, !.code = code]

InitValidate ==
  /\ Quiet
  /\ pwb = NoPwb
  /\ rq = NoRq
  /\ fn = NoFn

\* a request arrives; pipeline_build takes BUILD_LOCK, which is free
RqArrive ==
  /\ rq.pc = "idle"
  /\ \E o \in Ops, zoom \in ZoomArgs, slot_id \in SlotArgs, slot_ids \in SlotListArgs,
        year_from \in YearArgs, year_to \in YearArgs :
       /\ o \in WindowOps => slot_id = Absent
       /\ o \in SlotOps => slot_ids = NoList
       /\ o = "pipeline_build" => (slot_ids = NoList \/ slot_id = Absent)
       /\ rq' = [NoRq EXCEPT !.pc = "parse", !.op = o, !.zoom = zoom, !.slot_id = slot_id,
                             !.slot_ids = slot_ids, !.year_from = year_from,
                             !.year_to = year_to]
       /\ lock' = (o = "pipeline_build")
  /\ UNCHANGED <<resp, b, store, views, upstream, builds, step, seen, last, q, op, sos,
                 pwb, fn>>

\* the statements before storage.connect: the parameters, and for
\* pipeline_build the credentials and the taxa list
RqParse ==
  /\ rq.pc = "parse"
  /\ LET p == ParseArgs(rq) IN
     IF ~p.ok
     THEN /\ rq' = Answer(rq, StatusOf(p.code), p.code)
          /\ lock' = FALSE
     ELSE LET r == [rq EXCEPT !.z = p.v.zoom, !.slots = p.v.slots, !.years = p.v.years] IN
          IF rq.op # "pipeline_build"
          THEN /\ rq' = [r EXCEPT !.pc = "schema"]
               /\ UNCHANGED lock
          ELSE \E env \in {"no_key", "no_list", "no_taxa", "ok"} :
                 /\ rq' = IF env = "ok" THEN [r EXCEPT !.pc = "schema"]
                          ELSE IF env = "no_taxa" THEN Answer(r, 400, "")
                          ELSE IF env = "no_key" THEN Answer(r, 500, "")
                          ELSE Answer(r, 500, "internal_error")
                 /\ lock' = (env = "ok")
  /\ UNCHANGED <<resp, b, store, views, upstream, builds, step, seen, last, q, op, sos,
                 pwb, fn>>

\* storage.ensure_schema(conn), and what stands between it and the work:
\* the years of rank_nearby, the empty slot set of the window queries
RqSchema ==
  /\ rq.pc = "schema"
  /\ views' = AllViews
  /\ LET r == [rq EXCEPT !.schema = TRUE]
         years == parse_year_range_args(rq.year_from, rq.year_to)
     IN rq' = IF rq.op = "rank_nearby"
              THEN IF ~years.ok THEN Answer(r, StatusOf(years.code), years.code)
                   ELSE [r EXCEPT !.pc = "run", !.years = years.v]
              ELSE IF rq.op \in WindowOps /\ rq.slots = {}
              THEN Answer(r, 200, "")
              ELSE [r EXCEPT !.pc = "run"]
  /\ UNCHANGED <<lock, resp, b, store, upstream, builds, step, seen, last, q, op, sos,
                 pwb, fn>>

\* ------------------------------------------------ the SELECTs of app.py
\* score a is less than score c; a score is num / sqrt(den2)
ScoreLess(a, c) == a.num * a.num * c.den2 < c.num * c.num * a.den2
MaxScore(S) == CHOOSE m \in S : \A n \in S : ~ScoreLess(m, n)

\* the sequences that list the elements of S once each, none before one
\* that ORDER BY puts first: rows that ORDER BY does not tell apart come in
\* any order
Orderings(S, First(_, _)) ==
  {f \in [1..Cardinality(S) -> S] :
     /\ \A i, j \in DOMAIN f : i # j => f[i] # f[j]
     /\ \A i, j \in DOMAIN f : i < j => ~First(f[j], f[i])}

Limit(rows, n) == SubSeq(rows, 1, Min2(Len(rows), n))

\* WHERE ... year BETWEEN ? AND ?: the buckets of the range
YearsBetween(table, year_from, year_to) ==
  {k \in DOMAIN table : year_from <= k /\ k <= year_to}

\* hotmap_geojson and hotmap_window_geojson: the rows of the all-years
\* bucket, or MAX(coverage), MAX(score) ... GROUP BY slot_id, x, y, bbox_*
\* over the buckets of the range
hotmap_rows(gh, zoom, slots, years) ==
  IF years = <<YEAR_ALL, YEAR_ALL>>
  THEN {[slot_id |-> h.slot_id, x |-> h.x, y |-> h.y, coverage |-> h.coverage,
         score |-> h.score, bbox |-> h.bbox] :
          h \in {r \in gh[YEAR_ALL] : r.zoom = zoom /\ r.slot_id \in slots}}
  ELSE LET sel == {r \in UNION {gh[k] : k \in YearsBetween(gh, years[1], years[2])} :
                     r.zoom = zoom /\ r.slot_id \in slots}
           keys == {<<r.slot_id, r.x, r.y, r.bbox>> : r \in sel}
           grp(k) == {r \in sel : <<r.slot_id, r.x, r.y, r.bbox>> = k}
       IN {[slot_id |-> k[1], x |-> k[2], y |-> k[3],
            coverage |-> SetMax({r.coverage : r \in grp(k)}),
            score |-> MaxScore({r.score : r \in grp(k)}), bbox |-> k[4]] : k \in keys}

\* ORDER BY coverage DESC, score DESC, after slot_id ASC for the window
HotmapBefore(a, c) ==
  \/ a.slot_id < c.slot_id
  \/ a.slot_id = c.slot_id /\ a.coverage > c.coverage
  \/ a.slot_id = c.slot_id /\ a.coverage = c.coverage /\ ScoreLess(c.score, a.score)

\* the view without its JOIN hotmap_taxa_set
taxa_names_v_unrestricted(tg, gh, hts, zoom, slots, x, y) ==
  {t \in tg :
     /\ t.zoom = zoom /\ t.slot_id \in slots /\ t.x = x /\ t.y = y
     /\ \E h \in gh : h.zoom = t.zoom /\ h.slot_id = t.slot_id /\ h.x = t.x /\ h.y = t.y}

\* view grid_hotmap_taxa_names_v in one bucket, at one tile: the taxon_grid
\* rows joined to the hotmap row of their tile and to the taxa set
taxa_names_v(tg, gh, hts, zoom, slots, x, y) ==
  {t \in tg :
     /\ t.zoom = zoom /\ t.slot_id \in slots /\ t.x = x /\ t.y = y
     /\ \E h \in gh : h.zoom = t.zoom /\ h.slot_id = t.slot_id /\ h.x = t.x /\ h.y = t.y
     /\ \E a \in hts : a.zoom = t.zoom /\ a.slot_id = t.slot_id /\ a.taxon_id = t.taxon_id}

RECURSIVE SumOver(_, _)
SumOver(f, S) ==
  IF S = {} THEN 0
  ELSE LET e == CHOOSE e \in S : TRUE IN f[e] + SumOver(f, S \ {e})

\* cell_taxa and cell_taxa_window: SUM(observations_count) ... GROUP BY
\* taxon_id over the buckets and slots asked for (one row per taxon where
\* there is one bucket and one slot)
cell_rows(tg, gh, hts, zoom, slots, x, y, years) ==
  LET buckets == IF years = <<YEAR_ALL, YEAR_ALL>> THEN {YEAR_ALL}
                 ELSE YearsBetween(tg, years[1], years[2])
      rows(k) == taxa_names_v(tg[k], gh[k], hts[k], zoom, slots, x, y)
      taxa == UNION {{t.taxon_id : t \in rows(k)} : k \in buckets}
      of(k, id) == SumObs({t \in rows(k) : t.taxon_id = id})
      sum(id) == SumOver([k \in buckets |-> of(k, id)], buckets)
  IN {[taxon_id |-> id, observations_count |-> sum(id)] : id \in taxa}

\* ORDER BY observations_count DESC, taxon_id
CellBefore(a, c) ==
  \/ a.observations_count > c.observations_count
  \/ a.observations_count = c.observations_count /\ a.taxon_id < c.taxon_id

\* the SELECT of a query handler and its answer
RqSelect ==
  /\ rq.pc = "run" /\ rq.op \in {"hotmap", "hotmap_window", "cell_taxa", "cell_taxa_window"}
  /\ \E rows \in
        IF rq.op \in {"hotmap", "hotmap_window"}
        THEN Orderings(hotmap_rows(grid_hotmap, rq.z, rq.slots, rq.years), HotmapBefore)
        ELSE {Limit(f, rq.limit) :
                f \in Orderings(cell_rows(taxon_grid, grid_hotmap, hotmap_taxa_set, rq.z,
                                          rq.slots, rq.x, rq.y, rq.years), CellBefore)} :
       rq' = Answer([rq EXCEPT !.read = TRUE, !.result = rows], 200, "")
  /\ UNCHANGED <<lock, resp, b, store, views, upstream, builds, step, seen, last, q, op,
                 sos, pwb, fn>>

\* the weight of a distance as the fraction num / den
\* distance_weight_rational: 1.0 / ((1.0 + d_km / d0_km) ** gamma), that
\* is d0_km^gamma / (d0_km + d_km)^gamma
distance_weight_rational(d_km, d0_km, gamma) ==
  IF d0_km <= 0 THEN [num |-> 0, den |-> 1]
  ELSE LET g == IF gamma <= 0 THEN 1 ELSE gamma
       IN [num |-> Pow(d0_km, g), den |-> Pow(d0_km + d_km, g)]

\* haversine_km for a query point on the parallel of the centroids: the
\* distance grows with the difference in longitude.  Longitudes are counted
\* in half widths of a tile of MaxZoom, where (left + right) / 2.0 is a
\* whole number, and so are the distances.
haversine_km(lon, c_lon) == IF lon >= c_lon THEN lon - c_lon ELSE c_lon - lon

\* dw_score a is less than dw_score c; dw_score is score * w
DwLess(a, c) ==
  (a.score.num * a.w.num) * (a.score.num * a.w.num) * c.score.den2 * (c.w.den * c.w.den)
    < (c.score.num * c.w.num) * (c.score.num * c.w.num) * a.score.den2 * (a.w.den * a.w.den)

CandidateLimit == 4000

\* the candidate rows of rank_nearby: grid_hotmap_v in the all-years bucket,
\* or the rows grouped over the range with "? AS year" = YEAR_ALL
candidate_rows(gh, zoom, slot_id, years) ==
  {[zoom |-> zoom, year |-> YEAR_ALL, slot_id |-> h.slot_id, x |-> h.x, y |-> h.y,
    coverage |-> h.coverage, score |-> h.score,
    centroid_lon |-> h.bbox.left + h.bbox.right] :
     h \in hotmap_rows(gh, zoom, {slot_id}, years)}

\* the loop over candidate_rows: a key seen before is skipped, so is a tile
\* farther than max_km; the others are scored
RECURSIVE Scored(_, _, _, _, _, _)
Scored(rows, seen_keys, lon, max_km, d0_km, gamma) ==
  IF rows = <<>> THEN <<>>
  ELSE LET row == Head(rows)
           key == <<row.zoom, row.year, row.slot_id, row.x, row.y>>
           d_km == haversine_km(lon, row.centroid_lon)
           rest == Scored(Tail(rows), seen_keys \cup {key}, lon, max_km, d0_km, gamma)
       IN IF key \in seen_keys THEN rest
          ELSE IF d_km > max_km THEN rest
          ELSE <<[score |-> row.score, w |-> distance_weight_rational(d_km, d0_km, gamma),
                  d_km |-> d_km, row |-> row]>> \o rest

\* scored.sort(key=lambda t: (-t[0], t[1])): a stable sort
RankBefore(a, c) == DwLess(c, a) \/ (~DwLess(a, c) /\ a.d_km < c.d_km)

RECURSIVE InsertRanked(_, _)
InsertRanked(sorted, e) ==
  IF sorted = <<>> THEN <<e>>
  ELSE IF RankBefore(e, Head(sorted)) THEN <<e>> \o sorted
  ELSE <<Head(sorted)>> \o InsertRanked(Tail(sorted), e)

RECURSIVE SortRanked(_)
SortRanked(scored) ==
  IF scored = <<>> THEN <<>>
  ELSE InsertRanked(SortRanked(SubSeq(scored, 1, Len(scored) - 1)), scored[Len(scored)])

\* rank_nearby: the candidates, the loop, the sort and scored[:limit]
RqRank ==
  /\ rq.pc = "run" /\ rq.op = "rank_nearby"
  /\ \E rows \in Orderings(candidate_rows(grid_hotmap, rq.z, CHOOSE k \in rq.slots : TRUE,
                                         rq.years), HotmapBefore) :
       LET scored == Scored(Limit(rows, CandidateLimit), {}, rq.lon, rq.max_km,
                            rq.d0_km, rq.gamma)
       IN rq' = Answer([rq EXCEPT !.read = TRUE,
                                  !.result = Limit(SortRanked(scored), rq.limit)], 200, "")
  /\ UNCHANGED <<lock, resp, b, store, views, upstream, builds, step, seen, last, q, op,
                 sos, pwb, fn>>

\* the loops of pipeline_build over slots_to_build, the taxa and
\* range(year_from, year_to + 1): the upstream is called for every year of
\* the span and the layers are written; the finally releases BUILD_LOCK
RqBuild ==
  /\ rq.pc = "run" /\ rq.op = "pipeline_build"
  /\ \E failed \in BOOLEAN :
       rq' = IF failed
             THEN Answer([rq EXCEPT !.called = TRUE], 500, "internal_error")
             ELSE Answer([rq EXCEPT !.called = TRUE, !.wrote = TRUE], 200, "")
  /\ lock' = FALSE
  /\ UNCHANGED <<resp, b, store, views, upstream, builds, step, seen, last, q, op, sos,
                 pwb, fn>>

\* the answer is sent
RqSent ==
  /\ rq.pc = "done"
  /\ rq' = NoRq
  /\ UNCHANGED <<lock, resp, b, store, views, upstream, builds, step, seen, last, q, op,
                 sos, pwb, fn>>

NextValidate ==
  \/ RqArrive
  \/ RqParse
  \/ RqSchema
  \/ RqSelect
  \/ RqRank
  \/ RqBuild
  \/ RqSent

SpecValidate == InitValidate /\ [][NextValidate]_vars

\* =================================================================
\* the hotmap and cell queries over a store that a build with two years,
\* two taxa and one derived zoom has filled
\* =================================================================
ServeTaxa == <<1, 2>>
ServeYears == {YearFrom, YearFrom + 1}
ServeBuckets == ServeYears \cup {YEAR_ALL}
ServeZooms == {BaseZoom, BaseZoom - 1}

\* what the upstream answered per taxon and year
ServeCells == {Cell(0, 0, 1, TRUE), Cell(0, 0, 40, TRUE), Cell(1, 0, 1, TRUE)}
ServePayloads ==
  {p \in SeqsUpTo(ServeCells, 2) : \A i, j \in DOMAIN p : i < j => p[i].x < p[j].x}
ServePayloadsOf(t) == IF t = 1 THEN ServePayloads ELSE {<<>>, <<Cell(0, 0, 1, TRUE)>>}

\* rebuild_hotmap takes bbox_top_lat ... bbox_right_lon as bare columns of
\* its GROUP BY zoom, slot_id, x, y: SQLite reads them from one of the rows
\* of the group.  The tables grid_hotmap may hold afterwards, rows with
\* their bbox.
HotmapTables(tg, zoom, slot_id, taxon_ids, alpha, beta2, now) ==
  LET rows == HotmapRows(tg, zoom, slot_id, taxon_ids, alpha, beta2, now)
      boxes(h) == {t.bbox : t \in {r \in tg : /\ r.zoom = zoom /\ r.slot_id = slot_id
                                              /\ r.taxon_id \in Range(taxon_ids)
                                              /\ r.x = h.x /\ r.y = h.y}}
      picks == {f \in [rows -> UNION {boxes(h) : h \in rows}] :
                  \A h \in rows : f[h] \in boxes(h)}
  IN {{[bbox |-> f[h]] @@ h : h \in rows} : f \in picks}

\* one layer of the base zoom and the zoom derived from it, as
\* replace_taxon_grid and materialize_parent_zoom_from_child leave them
LayerGrid(t, cells) ==
  materialize_grid(replace_taxon_grid({}, t, BaseZoom, SLOT_ALL, cells, 0).tg,
                   t, SLOT_ALL, BaseZoom, BaseZoom - 1, 0)

LayerStates(t, cells) ==
  LET sha == stable_gridcells_hash(cells, BaseZoom)
      tg == replace_taxon_grid({}, t, BaseZoom, SLOT_ALL, cells, 0).tg
  IN materialize_state(upsert_layer_state({}, t, BaseZoom, SLOT_ALL, sha, Len(cells), 0),
                       tg, t, SLOT_ALL, BaseZoom, BaseZoom - 1, sha, 0)

BucketGrid(cells) == UNION {LayerGrid(ServeTaxa[i], cells[i]) : i \in DOMAIN ServeTaxa}
BucketStates(cells) == UNION {LayerStates(ServeTaxa[i], cells[i]) : i \in DOMAIN ServeTaxa}

\* the hotmaps of both zooms, one after the other
BucketHotmaps(tg, taxon_ids) ==
  {hi \cup lo : hi \in HotmapTables(tg, BaseZoom, SLOT_ALL, taxon_ids, hotmap_alpha,
                                    hotmap_beta2, 0),
                lo \in HotmapTables(tg, BaseZoom - 1, SLOT_ALL, taxon_ids, hotmap_alpha,
                                    hotmap_beta2, 0)}

BucketTaxaSet(taxon_ids) ==
  rebuild_taxa_set(rebuild_taxa_set({}, BaseZoom, SLOT_ALL, taxon_ids),
                   BaseZoom - 1, SLOT_ALL, taxon_ids)

\* the store after pipeline_build for the given years and the taxa of
\* ServeTaxa with the payloads pay[y][i], rebuilt for taxon_ids: the year
\* buckets and the all-years bucket of the merged payloads
StoreBuilt(years, pay, taxon_ids, tg, tls, gh, hts) ==
  LET ys == TilesSorted({<<y, 0>> : y \in years})
      all == [i \in DOMAIN ServeTaxa |->
                merge_payloads_gridcells([k \in DOMAIN ys |-> pay[ys[k][1]][i]])]
      cells(y) == IF y = YEAR_ALL THEN all ELSE pay[y]
      buckets == years \cup {YEAR_ALL}
  IN /\ tg = [y \in buckets |-> BucketGrid(cells(y))]
     /\ tls = [y \in buckets |-> BucketStates(cells(y))]
     /\ gh \in [buckets -> UNION {BucketHotmaps(tg[y], taxon_ids) : y \in buckets}]
     /\ \A y \in buckets : gh[y] \in BucketHotmaps(tg[y], taxon_ids)
     /\ hts = [y \in buckets |-> BucketTaxaSet(taxon_ids)]

InitServe ==
  /\ Calm
  /\ \E pay \in [ServeYears -> {p \in [DOMAIN ServeTaxa -> ServePayloads] :
                                  \A i \in DOMAIN p : p[i] \in ServePayloadsOf(ServeTaxa[i])}],
        taxon_ids \in {<<1>>, <<1, 2>>} :
       StoreBuilt(ServeYears, pay, taxon_ids, taxon_grid, taxon_layer_state, grid_hotmap,
             hotmap_taxa_set)
  /\ pwb = NoPwb
  /\ rq = NoRq
  /\ fn = NoFn

ServeYearArgs == {Absent} \cup {Num(y) : y \in ServeYears}

\* a hotmap or cell query arrives, with parameters that parse
ServeArrive ==
  /\ rq.pc = "idle"
  /\ \E o \in {"hotmap", "hotmap_window", "cell_taxa", "cell_taxa_window"},
        zoom \in ServeZooms, year_from \in ServeYearArgs,
        year_to \in {Absent, Num(YearFrom + 1)},
        slot_ids \in {[given |-> TRUE, vals |-> <<Num(SLOT_ALL)>>],
                      [given |-> TRUE, vals |-> <<Num(1), Num(2)>>]},
        x \in Xs, limit \in {1, NoRq.limit} :
       /\ o \in {"hotmap", "hotmap_window"} => (x = 0 /\ limit = NoRq.limit)
       /\ o \in SlotOps => slot_ids.vals = <<Num(SLOT_ALL)>>
       /\ rq' = [NoRq EXCEPT !.pc = "parse", !.op = o, !.zoom = Num(zoom),
                             !.slot_ids = IF o \in WindowOps THEN slot_ids ELSE NoList,
                             !.year_from = year_from, !.year_to = year_to,
                             !.x = x, !.limit = limit]
  /\ UNCHANGED <<lock, resp, b, store, views, upstream, builds, step, seen, last, q, op,
                 sos, pwb, fn>>

NextServe ==
  \/ ServeArrive
  \/ RqParse
  \/ RqSchema
  \/ RqSelect
  \/ RqSent

SpecServe == InitServe /\ [][NextServe]_vars

\* =================================================================
\* rank_nearby over a store of four base tiles in a row and the two tiles
\* derived from them
\* =================================================================
RankXs == 0..3

\* what the upstream answered per taxon and year: taxon 1 in some tiles of
\* the row, taxon 2 in tile 2 or nowhere
RankPayloadsOf(t) ==
  IF t = 1
  THEN {<<>>, <<Cell(0, 0, 1, TRUE)>>, <<Cell(1, 0, 1, TRUE)>>,
        <<Cell(0, 0, 3, TRUE), Cell(2, 0, 1, TRUE)>>,
        <<Cell(1, 0, 1, TRUE), Cell(3, 0, 1, TRUE)>>,
        <<Cell(0, 0, 1, TRUE), Cell(1, 0, 1, TRUE), Cell(2, 0, 1, TRUE), Cell(3, 0, 3, TRUE)>>}
  ELSE {<<>>, <<Cell(2, 0, 1, TRUE)>>}

InitRank ==
  /\ Calm
  /\ \E pay \in [ServeYears -> {p \in [DOMAIN ServeTaxa ->
                                         UNION {RankPayloadsOf(t) : t \in Range(ServeTaxa)}] :
                                  \A i \in DOMAIN p : p[i] \in RankPayloadsOf(ServeTaxa[i])}] :
       StoreBuilt(ServeYears, pay, ServeTaxa, taxon_grid, taxon_layer_state, grid_hotmap,
                  hotmap_taxa_set)
  /\ pwb = NoPwb
  /\ rq = NoRq
  /\ fn = NoFn

\* the longitudes asked for: the centroid of base tile 0, and the border of
\* base tiles 1 and 2
RankLons == {1, 4}
RankMaxKms == {0, 2, 8}
RankD0s == {0, 2}
RankGammas == {1, 2}
RankLimits == {0, 1, 20}

\* a rank_nearby query arrives, with parameters that parse
RankArrive ==
  /\ rq.pc = "idle"
  /\ \E zoom \in ServeZooms, ranged \in BOOLEAN, lon \in RankLons, max_km \in RankMaxKms,
        d0_km \in RankD0s, gamma \in RankGammas, limit \in RankLimits :
       rq' = [NoRq EXCEPT !.pc = "parse", !.op = "rank_nearby", !.zoom = Num(zoom),
                          !.year_from = IF ranged THEN Num(YearFrom) ELSE Absent,
                          !.year_to = IF ranged THEN Num(YearFrom + 1) ELSE Absent,
                          !.lon = lon, !.max_km = max_km, !.d0_km = d0_km,
                          !.gamma = gamma, !.limit = limit]
  /\ UNCHANGED <<lock, resp, b, store, views, upstream, builds, step, seen, last, q, op,
                 sos, pwb, fn>>

NextRank ==
  \/ RankArrive
  \/ RqParse
  \/ RqSchema
  \/ RqRank
  \/ RqSent

SpecRank == InitRank /\ [][NextRank]_vars

\* =================================================================
\* stable_gridcells_hash on whole payloads
\* =================================================================
MaxHashCells == 3

\* a cell as the upstream sends it, with a key the hash does not read
GridCell(x, obs, extra) ==
  [x |-> x, y |-> 0, zoom |-> BaseZoom, observationsCount |-> obs, taxaCount |-> 1,
   boundingBox |-> [topLeft |-> [latitude |-> 0, longitude |-> x],
                    bottomRight |-> [latitude |-> -1, longitude |-> x + 1]],
   extra |-> extra]

GridCells == {GridCell(x, obs, extra) : x \in Xs, obs \in 1..2, extra \in 0..1}

\* payloads: the gridCells and a key of the payload the hash does not read
HashPayloads ==
  {[gridCells |-> cells, extra |-> e] : cells \in SeqsUpTo(GridCells, MaxHashCells),
                                        e \in 0..1}

\* slim before the sort: the projection of each cell, in payload order
slim(payload) ==
  [i \in DOMAIN payload.gridCells |->
     LET c == payload.gridCells[i] IN
     <<c.x, c.y, c.zoom, c.observationsCount, c.taxaCount,
       c.boundingBox.topLeft.latitude, c.boundingBox.topLeft.longitude,
       c.boundingBox.bottomRight.latitude, c.boundingBox.bottomRight.longitude>>]

\* the hash of the projection left in payload order
stable_gridcells_hash_unsorted(payload) == Sha(slim(payload))

\* stable_gridcells_hash(payload): sha256 of the JSON of slim after
\* slim.sort(key=lambda t: (t[0], t[1]))
stable_gridcells_hash_payload(payload) == Sha(SortByXY(slim(payload)))

\* the payloads that hold the cells of payload in some order, and differ
\* from it in the keys outside the projection
Reordered(payload) ==
  LET n == Len(payload.gridCells) IN
  {[gridCells |-> [i \in 1..n |-> [payload.gridCells[f[i]] EXCEPT !.extra = x[i]]],
    extra |-> e] : f \in Permutations(1..n), x \in [1..n -> 0..1], e \in 0..1}

\* two payloads of the same cells are given
InitHash ==
  /\ Quiet
  /\ pwb = NoPwb
  /\ rq = NoRq
  /\ \E payload \in HashPayloads :
       \E other \in Reordered(payload) :
         fn = [name |-> "", payload |-> payload, other |-> other,
               sha |-> Sha(<<>>), other_sha |-> Sha(<<>>)]

\* both are hashed
HashBoth ==
  /\ fn.name = ""
  /\ fn' = [fn EXCEPT !.name = "stable_gridcells_hash",
                      !.sha = stable_gridcells_hash_payload(fn.payload),
                      !.other_sha = stable_gridcells_hash_payload(fn.other)]
  /\ UNCHANGED <<lock, resp, b, store, views, upstream, builds, step, seen, last, q, op,
                 sos, pwb, rq>>

NextHash == HashBoth

SpecHash == InitHash /\ [][NextHash]_vars

\* =================================================================
\* geomap/timeslots.py
\* =================================================================

\* calendar.isleap
isleap(year) == year % 4 = 0 /\ (year % 100 # 0 \/ year % 400 = 0)

\* a calendar in which February always has 28 days
monthrange_common(year, month) ==
  IF month = 2 THEN 28
  ELSE IF month \in {4, 6, 9, 11} THEN 30 ELSE 31

\* calendar.monthrange(year, month)[1]: the number of days of the month
monthrange(year, month) ==
  IF month = 2 THEN (IF isleap(year) THEN 29 ELSE 28)
  ELSE IF month \in {4, 6, 9, 11} THEN 30 ELSE 31

\* 1-7 => q1, 8-14 => q2, 15-21 => q3, else => q4
month_quartile_slot(month, day) ==
  LET quartile == IF day <= 7 THEN 1 ELSE IF day <= 14 THEN 2 ELSE IF day <= 21 THEN 3 ELSE 4
  IN (month - 1) * 4 + quartile

slot_to_month_quartile(slot_id) ==
  IF ~(1 <= slot_id /\ slot_id <= 48) THEN ValueError
  ELSE Ok(<<((slot_id - 1) \div 4) + 1, ((slot_id - 1) % 4) + 1>>)

\* TimeSlot(slot_id, month, quartile, start_day, end_day)
slot_bounds(month, quartile, year_for_days) ==
  IF quartile \notin {1, 2, 3, 4} THEN ValueError
  ELSE IF month \notin 1..12 THEN ValueError
  ELSE Ok([slot_id |-> (month - 1) * 4 + quartile, month |-> month, quartile |-> quartile,
           start_day |-> CASE quartile = 1 -> 1 [] quartile = 2 -> 8
                              [] quartile = 3 -> 15 [] quartile = 4 -> 22,
           end_day |-> CASE quartile = 1 -> 7 [] quartile = 2 -> 14
                            [] quartile = 3 -> 21
                            [] quartile = 4 -> monthrange(year_for_days, month)])

\* the years dates are taken from: leap and common years, and the turns of
\* century that are and are not leap years
SlotYears == {1900, 2000, 2001, 2004, 2100}

\* a calendar date is given
InitSlot ==
  /\ Quiet
  /\ pwb = NoPwb
  /\ rq = NoRq
  /\ \E year \in SlotYears, month \in 1..12, day \in 1..31 :
       /\ day <= (IF month = 2 THEN (IF isleap(year) THEN 29 ELSE 28)
                  ELSE IF month \in {4, 6, 9, 11} THEN 30 ELSE 31)
       /\ fn = [name |-> "", year |-> year, month |-> month, day |-> day,
                slot_id |-> 0, mq |-> ValueError, ts |-> ValueError]

\* the slot of the date, the month and quartile of the slot, and the bounds
\* of the slot in the year of the date (as _extra_filter_for_slot_year asks
\* for them)
SlotOfDate ==
  /\ fn.name = ""
  /\ LET slot_id == month_quartile_slot(fn.month, fn.day)
         mq == slot_to_month_quartile(slot_id)
     IN fn' = [fn EXCEPT !.name = "slot_bounds", !.slot_id = slot_id, !.mq = mq,
                         !.ts = IF mq.ok THEN slot_bounds(mq.v[1], mq.v[2], fn.year)
                                ELSE ValueError]
  /\ UNCHANGED <<lock, resp, b, store, views, upstream, builds, step, seen, last, q, op,
                 sos, pwb, rq>>

NextSlot == SlotOfDate

SpecSlot == InitSlot /\ [][NextSlot]_vars

\* =================================================================
\* pipeline_build with the ways it ends before the store is opened
\* =================================================================

\* a finally that leaves the lock as it is
release_skipped(held) == held

\* finally: BUILD_LOCK.release()
release(held) == FALSE

\* how pipeline_build ends between the acquire and storage.connect:
\* parse_slot_id aborts with 400, int() or parse_zooms raises ValueError,
\* a credential is missing (return 500), the taxa list file is missing
\* (FileNotFoundError), the list holds no taxon id (return 400)
EarlyEnds == {"bad_request", "value_error", "missing_credentials", "missing_list", "no_taxa"}

\* the build ends there; the finally runs on the return and on the raise
EarlyEnd ==
  /\ b.pc = "schema"
  /\ \E end \in EarlyEnds : resp' = [resp EXCEPT ![b.client] = end]
  /\ lock' = release(lock)
  /\ b' = Idle
  /\ UNCHANGED <<store, views, upstream, builds, step, seen, last, q, op, sos, pwb, rq, fn>>

NextLock ==
  \/ \E c \in Clients : Post(c)
  \/ EarlyEnd
  \/ BuildSchema
  \/ Fetch
  \/ Merge
  \/ ReplaceDelete
  \/ ReplaceInsert
  \/ Upsert
  \/ MaterializeDelete
  \/ MaterializeInsert
  \/ MaterializeUpsert
  \/ Hotmap
  \/ Finish

SpecLock == Init /\ [][NextLock]_vars

\* =================================================================
\* the claims
\* =================================================================

Running == {c \in Clients : resp[c] = "running"}
Built == b.pc = "done"

\* C1: at most one build runs at any time, and the POST that finds the build
\* lock held is answered busy in that very step, which leaves the lock, the
\* running build, the upstream and every table as they are.
C1_OneBuildOthersBusy ==
  [][/\ Cardinality({c \in Clients : resp'[c] = "running"}) <= 1
     /\ \A c \in Clients :
          (resp'[c] = "busy" /\ resp[c] # "busy") =>
             /\ lock /\ lock'
             /\ Running # {} /\ c \notin Running
             /\ UNCHANGED <<b, store, views, upstream, builds>>]_vars

\* C1 witness: a client was answered busy while the build of the other one is
\* in the middle of writing a layer
C1_Witness ==
  \E c, d \in Clients : resp[c] = "busy" /\ resp[d] = "running" /\ b.pc = "ins"

\* C2: what a reader gets of the layer an ingest step writes is the layer as
\* it was before the step (old rows, old hash) or as the step leaves it (new
\* rows, new hash).
C2_ReaderSeesOldOrNew ==
  seen.valid =>
    seen.view \in {LayerView(step.tg0[step.y], step.tls0[step.y], step.t, step.z, step.s),
                   step.new}

\* C3: once an ingest step has failed, taxon_grid and taxon_layer_state hold
\* for every key what they held when the step began.
C3_FailedStepRestores ==
  step.failed => taxon_grid = step.tg0 /\ taxon_layer_state = step.tls0

\* C5: when a build completes, whatever was aborted before it, the rows of
\* every fetched layer of its scope are the cells of the upstream payload, and
\* a step skips the write only when the stored rows are the fetched cells.
C5_ResumeIsSafe ==
  /\ Built =>
       \A ti \in DOMAIN TaxonIds, yi \in DOMAIN YearSeq :
          LayerView(taxon_grid[YearSeq[yi]], taxon_layer_state[YearSeq[yi]],
                    TaxonIds[ti], b.zooms[1], SLOT_ALL).rows
            = CellView(upstream[yi], NoSha).rows
  /\ (step.skip /\ ~step.failed) =>
       LayerView(step.tg0[step.y], step.tls0[step.y], step.t, step.z, step.s).rows
         = step.new.rows

\* rows, layer-states and hotmap rows without their timestamps
GridContent(tg) ==
  [y \in Buckets |->
     {[taxon_id |-> r.taxon_id, zoom |-> r.zoom, slot_id |-> r.slot_id, x |-> r.x,
       y |-> r.y, observations_count |-> r.observations_count] : r \in tg[y]}]
StateContent(tls) ==
  [y \in Buckets |->
     {[taxon_id |-> r.taxon_id, zoom |-> r.zoom, slot_id |-> r.slot_id,
       payload_sha256 |-> r.payload_sha256, grid_cell_count |-> r.grid_cell_count]
        : r \in tls[y]}]
HotmapContent(gh) ==
  [y \in Buckets |->
     {[zoom |-> r.zoom, slot_id |-> r.slot_id, x |-> r.x, y |-> r.y,
       coverage |-> r.coverage, score |-> r.score] : r \in gh[y]}]

C7_DerivedNotStale ==
  Built =>
    \A y \in Buckets, ti \in DOMAIN TaxonIds, zi \in 2..Len(b.zooms) :
       LET st == get_layer_state(taxon_layer_state[y], TaxonIds[ti], b.zooms[zi], SLOT_ALL) IN
       /\ st # NULL
       /\ IsLocalFrom(st.payload_sha256)
       /\ LET from == get_layer_state(taxon_layer_state[y], TaxonIds[ti],
                                      st.payload_sha256.src, SLOT_ALL) IN
          /\ from # NULL
          /\ from.payload_sha256 = Sha(st.payload_sha256.blob)

\* C4: a query is never answered with a database error, whatever the other
\* handlers do at the same time.
C4_QueriesNeverFail ==
  \A h \in Handlers : q[h].result # "db_error"

\* the hotmap rows and the taxa set of the key (zoom, slot) in one bucket
HotmapKey(gh, zoom) == {r \in gh : r.zoom = zoom /\ r.slot_id = SLOT_ALL}
TilesOf(rows) == {<<r.x, r.y>> : r \in rows}

\* the tiles of the zoom that hold a taxon_grid row of a taxon of T
TaxaTiles(tg, zoom, T) ==
  TilesOf({r \in tg : r.zoom = zoom /\ r.slot_id = SLOT_ALL /\ r.taxon_id \in Range(T)})

\* the hotmap of the key is exactly one row per tile of T, and the taxa set is T
RebuiltFor(y, zoom, T) ==
  /\ TilesOf(HotmapKey(grid_hotmap[y], zoom)) = TaxaTiles(taxon_grid[y], zoom, T)
  /\ Cardinality(HotmapKey(grid_hotmap[y], zoom))
       = Cardinality(TaxaTiles(taxon_grid[y], zoom, T))
  /\ {r.taxon_id : r \in HotmapKey(hotmap_taxa_set[y], zoom)} = Range(T)

\* C8: clear_derived_zoom_cache only deletes: every taxon_grid row and every
\* layer-state it deletes belongs to a layer at a zoom other than keep_zoom
\* whose layer-state carried a LOCAL_FROM_ marker.
C8_OnlyDerivedDeleted ==
  op.name = "clear_derived_zoom_cache" =>
    \A y \in Buckets :
      /\ taxon_grid[y] \subseteq op.tg0[y]
      /\ taxon_layer_state[y] \subseteq op.tls0[y]
      /\ \A r \in op.tg0[y] \ taxon_grid[y] :
            /\ r.zoom # op.keep_zoom
            /\ LET st == get_layer_state(op.tls0[y], r.taxon_id, r.zoom, r.slot_id)
               IN st # NULL /\ IsLocalFrom(st.payload_sha256)
      /\ \A st \in op.tls0[y] \ taxon_layer_state[y] :
            st.zoom # op.keep_zoom /\ IsLocalFrom(st.payload_sha256)

RowsOfTaxaAt(tg, h, T) ==
  {g \in tg : /\ g.zoom = h.zoom /\ g.slot_id = h.slot_id /\ g.x = h.x /\ g.y = h.y
              /\ g.taxon_id \in Range(T)}

\* two scores num / sqrt(den2) are the same number
SameScore(a, c) == a.num * a.num * c.den2 = c.num * c.num * a.den2

\* the hotmap row has score = coverage^alpha / (obs_total + 1)^beta for the
\* obs_total of T on its tile, and coverage 3 and score 9 / sqrt(61) when
\* three taxa of T hold 10, 20 and 30 there and alpha = 2, beta = 0.5
ScoredFor(h, tg, T, alpha, beta2) ==
  LET at == RowsOfTaxaAt(tg, h, T) IN
  /\ SameScore(h.score, [num |-> Pow(h.coverage, alpha),
                         den2 |-> Pow(SumObs(at) + 1, beta2)])
  /\ ( /\ alpha = 2 /\ beta2 = 1 /\ Cardinality(at) = 3
       /\ {g.observations_count : g \in at} = {10, 20, 30} )
     => (h.coverage = 3 /\ SameScore(h.score, [num |-> 9, den2 |-> 61]))

ParentOf(r, src_zoom, dst_zoom) ==
  <<r.x \div Pow2(src_zoom - dst_zoom), r.y \div Pow2(src_zoom - dst_zoom)>>

\* the destination layer holds one row per parent tile with a child row in
\* the source layer, each with the sum of its children's counts, and the
\* layer-state is the marker of (src_zoom, src_sha) with the row count
MaterializedFrom(tg, tls, t, s, src_zoom, dst_zoom, src_sha) ==
  LET src == LayerRows(tg, t, src_zoom, s)
      dst == LayerRows(tg, t, dst_zoom, s)
      st == get_layer_state(tls, t, dst_zoom, s)
  IN /\ TilesOf(dst) = {ParentOf(r, src_zoom, dst_zoom) : r \in src}
     /\ Cardinality(dst) = Cardinality(TilesOf(dst))
     /\ \A d \in dst :
           d.observations_count =
             SumObs({r \in src : ParentOf(r, src_zoom, dst_zoom) = <<d.x, d.y>>})
     /\ SumObs(dst) = SumObs(src)
     /\ st # NULL
     /\ st.payload_sha256 = [kind |-> "local", src |-> src_zoom, blob |-> src_sha.blob]
     /\ st.grid_cell_count = Cardinality(dst)

\* C12: materialize_parent_zoom_from_child with dst < src replaces the
\* destination layer by one row per parent tile that has a child row in the
\* source layer, with the sum of the children's counts, and writes the marker
\* LOCAL_FROM_<src>:<src_sha> with the number of parent rows; with dst >= src
\* it fails and changes nothing.
C12_MaterializeAggregates ==
  op.name = "materialize_parent_zoom_from_child" =>
    IF op.dst_zoom < op.src_zoom
    THEN /\ ~op.raised
         /\ MaterializedFrom(taxon_grid[op.year], taxon_layer_state[op.year], op.taxon_id,
                             SLOT_ALL, op.src_zoom, op.dst_zoom, op.src_sha)
    ELSE op.raised /\ taxon_grid = op.tg0 /\ taxon_layer_state = op.tls0

\* C12 witness: a destination layer that held rows is replaced by a parent
\* row that sums two child rows
C12_Witness ==
  /\ op.name = "materialize_parent_zoom_from_child" /\ ~op.raised
  /\ LayerRows(op.tg0[op.year], op.taxon_id, op.dst_zoom, SLOT_ALL) # {}
  /\ LayerRows(op.tg0[op.year], op.taxon_id, op.dst_zoom, SLOT_ALL)
       # LayerRows(taxon_grid[op.year], op.taxon_id, op.dst_zoom, SLOT_ALL)
  /\ \E d \in LayerRows(taxon_grid[op.year], op.taxon_id, op.dst_zoom, SLOT_ALL) :
       Cardinality({r \in LayerRows(taxon_grid[op.year], op.taxon_id, op.src_zoom, SLOT_ALL) :
                      ParentOf(r, op.src_zoom, op.dst_zoom) = <<d.x, d.y>>}) = 2

\* C13: every row written by materialize_parent_zoom_from_child has the
\* slippy-tile bounding box of its own (zoom, x, y), whichever of the parent
\* tile's child tiles are present in the source layer.
C13_DerivedBboxIsTileBbox ==
  (op.name = "materialize_parent_zoom_from_child" /\ ~op.raised) =>
    \A d \in LayerRows(taxon_grid[op.year], op.taxon_id, op.dst_zoom, SLOT_ALL) :
       d.bbox = tile_bbox(d.zoom, d.x, d.y)

\* the rows of a grid or layer-state table outside the layer (t, z, yr, s)
OtherLayers(table, t, z, yr) ==
  [y \in Buckets |-> {r \in table[y] : ~(y = yr /\ InLayer(r, t, z, SLOT_ALL))}]

\* the rows of a hotmap or taxa-set table outside the key (z, yr, s)
OtherHotmaps(table, z, yr) ==
  [y \in Buckets |-> {r \in table[y] : ~(y = yr /\ r.zoom = z /\ r.slot_id = SLOT_ALL)}]

\* C14: replace_taxon_grid and materialize_parent_zoom_from_child for the
\* layer (t, z, y, s) leave the taxon_grid rows and layer-states of every
\* other key as they were, those of the other year buckets of (t, z, s)
\* included, and rebuild_hotmap for (z, y, s) leaves the hotmap rows and taxa
\* sets of every other key as they were.
C14_OnlyOwnKeyChanges ==
  /\ op.name \in {"replace_taxon_grid", "materialize_parent_zoom_from_child"} =>
       /\ OtherLayers(taxon_grid, op.taxon_id, op.zoom, op.year)
            = OtherLayers(op.tg0, op.taxon_id, op.zoom, op.year)
       /\ OtherLayers(taxon_layer_state, op.taxon_id, op.zoom, op.year)
            = OtherLayers(op.tls0, op.taxon_id, op.zoom, op.year)
       /\ grid_hotmap = op.gh0 /\ hotmap_taxa_set = op.hts0
  /\ op.name = "rebuild_hotmap" =>
       /\ OtherHotmaps(grid_hotmap, op.zoom, op.year) = OtherHotmaps(op.gh0, op.zoom, op.year)
       /\ OtherHotmaps(hotmap_taxa_set, op.zoom, op.year)
            = OtherHotmaps(op.hts0, op.zoom, op.year)
       /\ taxon_grid = op.tg0 /\ taxon_layer_state = op.tls0

\* the aggregation of the taxon_grid rows of the taxa T at a zoom: per tile
\* the number of taxa with a row and the score of that number and of the sum
\* of the rows' counts
Aggregated(tg, zoom, T) ==
  {[x |-> p[1], y |-> p[2],
    coverage |-> Cardinality({t \in Range(T) :
                    \E g \in tg : /\ InLayer(g, t, zoom, SLOT_ALL)
                                  /\ g.x = p[1] /\ g.y = p[2]}),
    score |-> Score(Cardinality({t \in Range(T) :
                       \E g \in tg : /\ InLayer(g, t, zoom, SLOT_ALL)
                                     /\ g.x = p[1] /\ g.y = p[2]}),
                    SumObs({g \in tg : /\ g.zoom = zoom /\ g.slot_id = SLOT_ALL
                                       /\ g.taxon_id \in Range(T)
                                       /\ g.x = p[1] /\ g.y = p[2]}),
                    hotmap_alpha, hotmap_beta2)] : p \in TaxaTiles(tg, zoom, T)}

HotmapTiles(gh, zoom) ==
  {[x |-> h.x, y |-> h.y, coverage |-> h.coverage, score |-> h.score] :
     h \in HotmapKey(gh, zoom)}

\* every taxon, year and zoom of the slot has been gone through
LayersWritten == b.ti = Len(TaxonIds) /\ b.all /\ b.zi > Len(b.zooms)

MergedLayer(tg, tls, t, zoom, payloads) ==
  LET rows == LayerRows(tg, t, zoom, SLOT_ALL)
      st == get_layer_state(tls, t, zoom, SLOT_ALL)
      all == Flatten(payloads)
      tiles == {<<c.x, c.y>> : c \in Range(all)}
  IN /\ TilesOf(rows) = tiles
     /\ Cardinality(rows) = Cardinality(tiles)
     /\ \A r \in rows : r.observations_count = SumCells(all, <<r.x, r.y>>)
     /\ st # NULL
     /\ st.payload_sha256 = stable_gridcells_hash(merge_payloads_gridcells(payloads), zoom)

\* C16: when a build over the years has gone through a taxon, the layer of
\* the bucket YEAR_ALL at the base zoom holds one row per tile of any
\* per-year payload, with observations_count the sum of the tile's counts
\* over the years, and its layer-state hash is the hash of the merged list.
C16_MergedLayerIsSum ==
  Built =>
    MergedLayer(taxon_grid[YEAR_ALL], taxon_layer_state[YEAR_ALL], Taxon, b.zooms[1],
                b.payloads)

\* the answer is the upstream's too-many-cells error
TooManyCells(a) ==
  /\ a.status = 400
  /\ a.msg \in {"number of cells that can be returned is too large", "limit is 65535 cells"}

\* the step posts a request; the step splits the bbox of the request
RequestStep == sos'.requests = sos.requests + 1
SplitStep == RequestStep /\ Len(sos'.stack) = Len(sos.stack) + 1

\* C17: a grid request answered 429 is posted again after a wait: the call
\* fails with 429 only when the request was made more than once.
C17_RetriesOn429 ==
  (sos.status = "failed" /\ sos.answer.status = 429) => sos.tries > 1

\* C18: geogrid_aggregation_resilient terminates; a bbox is split only on a
\* too-many-cells answer at a depth below max_depth, no _try runs deeper than
\* max_depth, at most (4^(max_depth+1) - 1) / 3 requests are posted, and a
\* too-many-cells answer at depth max_depth fails the call with that error.
C18_SplitIsBounded ==
  /\ [](\A i \in DOMAIN sos.stack : sos.stack[i].depth <= sos.max_depth)
  /\ [](sos.requests <= (Pow(4, sos.max_depth + 1) - 1) \div 3)
  /\ [][ /\ SplitStep =>
               (TooManyCells(sos'.answer) /\ sos.stack[Len(sos.stack)].depth < sos.max_depth)
         /\ ( /\ RequestStep /\ TooManyCells(sos'.answer)
              /\ sos.stack[Len(sos.stack)].depth = sos.max_depth )
             => (sos'.status = "failed" /\ ~sos'.result.has) ]_vars
  /\ (sos.status = "running") ~> (sos.status \in {"ok", "failed"})

\* C18 witness: the bbox was split at depth 0 and the request of the fourth
\* quadrant, at depth max_depth, was answered too many cells
C18_Witness ==
  /\ sos.status = "failed" /\ TooManyCells(sos.answer)
  /\ sos.max_depth = 1 /\ sos.requests = 1 + Quadrants

\* C19: an answer that is neither 200 nor a too-many-cells error that is
\* split fails the whole call at once, without a split, and a failed call
\* returns no payload, whatever the quadrants before it returned.
C19_FailurePropagates ==
  /\ [][ ( /\ RequestStep /\ sos'.answer.status # 200
           /\ (~TooManyCells(sos'.answer) \/ ~SplitStep) )
          => ( /\ ~SplitStep /\ sos'.status = "failed" /\ sos'.stack = <<>>
               /\ ~sos'.ret.has /\ ~sos'.result.has ) ]_vars
  /\ [](sos.status = "failed" => (~sos.result.has /\ ~sos.ret.has /\ sos.stack = <<>>))

\* C19 witness: after a split, two quadrants returned cells and the third
\* was answered 500
C19_Witness ==
  /\ sos.status = "failed" /\ sos.answer.status = 500 /\ sos.requests = 4

\* cells is the merge of the sub-payloads: one cell per tile of any
\* sub-payload, with the tile's counts summed over the sub-payloads; for
\* sub-payloads of disjoint tiles that is every cell with its own count
MergedOf(cells, subs) ==
  LET all == Flatten(subs)
      tiles == {<<c.x, c.y>> : c \in Range(all)}
  IN /\ {<<c.x, c.y>> : c \in Range(cells)} = tiles
     /\ Len(cells) = Cardinality(tiles)
     /\ \A i \in DOMAIN cells :
           cells[i].observationsCount = SumCells(all, <<cells[i].x, cells[i].y>>)
     /\ (Len(all) = Cardinality(tiles)) =>
           (Len(cells) = Len(all) /\ Range(cells) = Range(all))

\* C20: the payload a _try returns after a split holds one cell per tile of
\* any quadrant's sub-payload, with observationsCount summed over the
\* sub-payloads; for disjoint quadrants the cell count is the sum of the
\* sub-payloads' cell counts and every count is unchanged.
C20_SplitPayloadIsMerged ==
  (sos.status = "running" /\ sos.ret.has /\ sos.stack[Len(sos.stack)].split) =>
     MergedOf(sos.ret.cells, sos.stack[Len(sos.stack)].subs)

\* C20 witness: a tile returned by two quadrants, merged into one cell of
\* count 2 next to a tile returned by one quadrant
C20_Witness ==
  /\ sos.status = "running" /\ sos.ret.has /\ sos.stack[Len(sos.stack)].split
  /\ Len(sos.ret.cells) = 2
  /\ \E i \in DOMAIN sos.ret.cells : sos.ret.cells[i].observationsCount = 2

\* the value the upstream asked to wait for: the header when it is an
\* integer, else the body phrase, else 60 s
RetryAfterValue(r) ==
  IF r.header.kind = "int" THEN r.header.n
  ELSE IF r.hint.has THEN r.hint.n
  ELSE 60

NoSlot(arg) == arg.kind = "int" /\ arg.n \notin 0..48
NoYear(arg) == arg.kind = "int" /\ arg.n # 0 /\ arg.n \notin YEAR_MIN..YEAR_MAX

\* the request names a slot outside 0..48 or a year that is neither 0 nor a
\* valid year, or it is a window query whose slot set mixes 0 with others
Invalid(r) ==
  \/ NoSlot(r.slot_id)
  \/ \E i \in DOMAIN r.slot_ids.vals : NoSlot(r.slot_ids.vals[i])
  \/ NoYear(r.year_from)
  \/ NoYear(r.year_to)
  \/ /\ r.op \in WindowOps
     /\ \E i, j \in DOMAIN r.slot_ids.vals :
          r.slot_ids.vals[i].n = 0 /\ r.slot_ids.vals[j].n # 0

\* every parameter of the request is there where it is required and is an integer
WellFormed(r) ==
  /\ r.zoom.kind # "text" /\ r.slot_id.kind # "text"
  /\ r.year_from.kind # "text" /\ r.year_to.kind # "text"
  /\ r.op \in WindowOps => r.slot_ids.given

\* C22: a request of one of the six operations whose parameters are
\* integers but name a slot outside 0..48, a year that is neither 0 nor a
\* valid year, or (window queries) 0 together with other slots, reads no
\* hotmap data, writes no layer and does not call the upstream, and its
\* answer is 400 bad_request
C22_InvalidIsRejected ==
  (rq.pc # "idle" /\ WellFormed(rq) /\ Invalid(rq)) =>
    /\ ~rq.read /\ ~rq.called /\ ~rq.wrote
    /\ rq.pc = "done" => (rq.status = 400 /\ rq.code = "bad_request")

\* the rows of the year buckets of the range a hotmap query asks for
RangeRows(r) ==
  {h \in UNION {grid_hotmap[k] : k \in YearsBetween(grid_hotmap, r.years[1], r.years[2])
                                        \ {YEAR_ALL}} :
     h.zoom = r.z /\ h.slot_id \in r.slots}

RangeAnswered(r) ==
  /\ r.pc = "done" /\ r.op \in {"hotmap", "hotmap_window"} /\ r.status = 200
  /\ r.years # <<YEAR_ALL, YEAR_ALL>>

\* C23: a hotmap or hotmap-window query over a year range returns at most
\* one feature per (slot, x, y); the feature carries the maximum coverage
\* and the maximum score of the tile over the year buckets of the range,
\* and the all-years bucket does not contribute.
C23_RangeOneFeaturePerTile ==
  RangeAnswered(rq) =>
    /\ \A i, j \in DOMAIN rq.result :
         (/\ rq.result[i].slot_id = rq.result[j].slot_id
          /\ rq.result[i].x = rq.result[j].x
          /\ rq.result[i].y = rq.result[j].y) => i = j
    /\ \A i \in DOMAIN rq.result :
         LET f == rq.result[i]
             of == {h \in RangeRows(rq) : h.slot_id = f.slot_id /\ h.x = f.x /\ h.y = f.y}
         IN /\ of # {}
            /\ f.coverage = SetMax({h.coverage : h \in of})
            /\ f.score = MaxScore({h.score : h \in of})

\* the same at the base zoom, where the bbox of a tile is the same in every
\* bucket
C23_BaseZoom == rq.z = BaseZoom => C23_RangeOneFeaturePerTile

C23_BaseWitness ==
  /\ RangeAnswered(rq) /\ rq.z = BaseZoom /\ rq.years[1] < rq.years[2]
  /\ Len(rq.result) = 2
  /\ \E h, g \in RangeRows(rq) : h.x = g.x /\ h.coverage < g.coverage

RankAnswered(r) == r.pc = "done" /\ r.op = "rank_nearby" /\ r.status = 200

TileKey(row) == <<row.zoom, row.year, row.slot_id, row.x, row.y>>

\* the candidate rows of the query answered, scored
RankCandidates(r) ==
  {[score |-> c.score, w |-> distance_weight_rational(haversine_km(r.lon, c.centroid_lon),
                                                     r.d0_km, r.gamma),
    d_km |-> haversine_km(r.lon, c.centroid_lon), row |-> c] :
     c \in candidate_rows(grid_hotmap, r.z, CHOOSE k \in r.slots : TRUE, r.years)}

\* C24: rank_nearby returns at most limit tiles, each within max_km and with
\* a key (zoom, year, slot, x, y) of its own, ordered by dw_score descending
\* and by distance ascending among equal dw_score; no candidate tile within
\* max_km that is left out has a higher dw_score than a returned tile.
C24_RankIsTopK ==
  RankAnswered(rq) =>
    /\ Len(rq.result) <= rq.limit
    /\ \A i \in DOMAIN rq.result : rq.result[i].d_km <= rq.max_km
    /\ \A i, j \in DOMAIN rq.result :
         TileKey(rq.result[i].row) = TileKey(rq.result[j].row) => i = j
    /\ \A i, j \in DOMAIN rq.result :
         i < j => /\ ~DwLess(rq.result[i], rq.result[j])
                  /\ ~DwLess(rq.result[j], rq.result[i])
                       => rq.result[i].d_km <= rq.result[j].d_km
    /\ \A c \in RankCandidates(rq) :
         (/\ c.d_km <= rq.max_km
          /\ \A i \in DOMAIN rq.result : TileKey(rq.result[i].row) # TileKey(c.row))
           => \A i \in DOMAIN rq.result : ~DwLess(rq.result[i], c)

\* the same where every tile has one candidate row: at the base zoom, and in
\* the all-years bucket
C24_OneRowPerTile ==
  (rq.z = BaseZoom \/ rq.years = <<YEAR_ALL, YEAR_ALL>>) => C24_RankIsTopK

C24_OneRowWitness ==
  /\ RankAnswered(rq) /\ rq.z = BaseZoom /\ rq.limit = 1 /\ rq.max_km = 2
  /\ Len(rq.result) = 1
  /\ \E c \in RankCandidates(rq) : c.d_km > rq.max_km
  /\ \E c \in RankCandidates(rq) : c.d_km <= rq.max_km /\ DwLess(c, rq.result[1])

\* C25: rank_nearby with max_km = 0 returns an empty list.
C25_ZeroRadiusIsEmpty ==
  (RankAnswered(rq) /\ rq.max_km = 0) => rq.result = <<>>

CellAnswered(r) ==
  r.pc = "done" /\ r.op \in {"cell_taxa", "cell_taxa_window"} /\ r.status = 200

\* the buckets a cell query reads
CellBuckets(r) ==
  IF r.years = <<YEAR_ALL, YEAR_ALL>> THEN {YEAR_ALL}
  ELSE {k \in DOMAIN taxon_grid : r.years[1] <= k /\ k <= r.years[2]}

\* the TaxonGrid rows of taxon id in the tile asked for, in bucket k
CellGridRows(r, k, id) ==
  {t \in taxon_grid[k] : /\ t.zoom = r.z /\ t.slot_id \in r.slots
                         /\ t.x = r.x /\ t.y = r.y /\ t.taxon_id = id}

CellCount(r, id) ==
  SumOver([k \in CellBuckets(r) |-> SumObs(CellGridRows(r, k, id))], CellBuckets(r))

Hashed == fn.name = "stable_gridcells_hash"

\* the blob is sorted by (x, y)
SortedByXY(blob) ==
  \A i, j \in DOMAIN blob :
    i < j => \/ blob[i][1] < blob[j][1]
             \/ blob[i][1] = blob[j][1] /\ blob[i][2] <= blob[j][2]

\* C27: two payloads whose gridCells are the same cells in any order, and
\* which differ only in keys outside the projection, have the same hash;
\* the hash input is sorted by (x, y).
C27_HashIgnoresOrder ==
  Hashed => /\ fn.sha = fn.other_sha
            /\ SortedByXY(fn.sha.blob)

\* no two cells of the payload are on the same tile
DistinctTiles(payload) ==
  \A i, j \in DOMAIN payload.gridCells :
    (/\ payload.gridCells[i].x = payload.gridCells[j].x
     /\ payload.gridCells[i].y = payload.gridCells[j].y) => i = j

\* C27, amended: the hash input is sorted by (x, y), and two payloads of
\* the same cells in any order have the same hash if no two of the cells
\* are on the same tile.
C27_HashIgnoresOrderOfTiles ==
  Hashed => /\ SortedByXY(fn.sha.blob)
            /\ DistinctTiles(fn.payload) => fn.sha = fn.other_sha

C27_Witness ==
  /\ Hashed /\ DistinctTiles(fn.payload)
  /\ Len(fn.payload.gridCells) = 2
  /\ fn.payload.gridCells[1].x > fn.payload.gridCells[2].x
  /\ fn.other.gridCells[1].x < fn.other.gridCells[2].x
  /\ fn.other.gridCells[1].extra # fn.payload.gridCells[2].extra
  /\ fn.other.extra # fn.payload.extra

SlotApplied == fn.name = "slot_bounds"

\* the quartile of a day: 1-7, 8-14, 15-21, 22-end
QuartileOf(day) == CHOOSE k \in 1..4 : 7 * (k - 1) < day /\ (day <= 7 * k \/ k = 4)

\* the last day of the month of the date, by the Gregorian rule
LastDay(year, month) ==
  CASE month \in {1, 3, 5, 7, 8, 10, 12} -> 31
    [] month \in {4, 6, 9, 11} -> 30
    [] month = 2 -> IF year % 400 = 0 \/ (year % 4 = 0 /\ year % 100 # 0) THEN 29 ELSE 28

\* C28: for every calendar date the slot is (month-1)*4 + q and lies in
\* 1..48, slot_to_month_quartile maps it back to (month, q), the day lies
\* within the bounds of the slot in that year; the four quartile ranges of
\* the month are disjoint and cover day 1 to the last day of the month, so
\* the fourth quartile of February ends on the 28th or, in a leap year,
\* the 29th.
C28_SlotsPartitionTheMonth ==
  SlotApplied =>
    /\ fn.slot_id = (fn.month - 1) * 4 + QuartileOf(fn.day)
    /\ fn.slot_id \in 1..48
    /\ fn.mq = Ok(<<fn.month, QuartileOf(fn.day)>>)
    /\ fn.ts.ok
    /\ fn.ts.v.start_day <= fn.day /\ fn.day <= fn.ts.v.end_day
    /\ \A day \in 1..LastDay(fn.year, fn.month) :
         \A k \in 1..4 :
           LET ts == slot_bounds(fn.month, k, fn.year).v
           IN (ts.start_day <= day /\ day <= ts.end_day) <=> k = QuartileOf(day)
    /\ slot_bounds(fn.month, 4, fn.year).v.end_day = LastDay(fn.year, fn.month)
    /\ slot_bounds(2, 4, fn.year).v.start_day = 22
    /\ slot_bounds(2, 4, fn.year).v.end_day
         = (IF fn.year \in {2000, 2004} THEN 29 ELSE 28)

\* the 29th of February
C28_Witness ==
  SlotApplied /\ fn.month = 2 /\ fn.day = 29 /\ fn.slot_id = 8 /\ fn.ts.v.end_day = 29

\* the answers of a build that has ended
Ended == EarlyEnds \cup {"ok", "internal_error"}

\* C29: a build that took the lock releases it when it ends, with ok, with
\* an early error or with an exception: the lock is held only while a build
\* runs, and a POST is answered busy only while another build runs.
C29_LockIsReleased ==
  [][/\ lock' <=> \E c \in Clients : resp'[c] = "running"
     /\ \A c \in Clients :
          (resp[c] = "running" /\ resp'[c] \in Ended) => ~lock'
     /\ \A c \in Clients :
          (resp'[c] = "busy" /\ resp[c] # "busy") => \E d \in Clients : resp[d] = "running"]_vars

\* a build runs after the build of another client ended early
C29_Witness ==
  \E c, d \in Clients :
    /\ resp[c] \in {"missing_credentials", "no_taxa"}
    /\ resp[d] = "running" /\ lock /\ builds = 2

C29_WitnessRaised ==
  \E c, d \in Clients :
    /\ resp[c] \in {"bad_request", "missing_list", "internal_error"}
    /\ resp[d] = "running" /\ lock /\ builds = 2

\* C30: after any sequence of ingest steps, derivations, hotmap rebuilds
\* and cleanups, every layer-state row has grid_cell_count equal to the
\* number of taxon_grid rows of its key.
C30_CountIsRowCount ==
  \A y \in DOMAIN taxon_layer_state :
    \A st \in taxon_layer_state[y] :
      st.grid_cell_count
        = Cardinality(LayerRows(taxon_grid[y], st.taxon_id, st.zoom, st.slot_id))

================================================================
